---------------------------- MODULE Spec2Model ----------------------------
(***************************************************************************)
(* Change-detection engine of the JSON functional change detection tool:   *)
(* the structural differs (diffObjects of the stand-alone script,          *)
(* AdvancedComparator.compareObjects), the per-connector reconciliation    *)
(* of both generations and the determinePriority classifier.               *)
(*                                                                         *)
(* JavaScript strings are TLA+ strings; JSON values are tagged records.    *)
(***************************************************************************)
EXTENDS Integers, Sequences, FiniteSets, TLC

(***************************************************************************)
(* JavaScript values as produced by JSON.parse, plus undefined.            *)
(***************************************************************************)
JUndef == [t |-> "undefined"]
JNull == [t |-> "null"]
JBool(b) == [t |-> "boolean", b |-> b]
JNum(n) == [t |-> "number", n |-> n]
JStr(s) == [t |-> "string", s |-> s]
JArr(es) == [t |-> "array", es |-> es]
\* kvs: the own properties in insertion order, a sequence of <<key, value>>
JObj(kvs) == [t |-> "object", kvs |-> kvs]

\* typeof v
TypeOf(v) ==
  IF v.t \in {"null", "array", "object"} THEN "object" ELSE v.t

\* ToBoolean(v), as used by `v || {}`, `!v` and `v && ...`
Truthy(v) ==
  CASE v.t = "undefined" -> FALSE
    [] v.t = "null" -> FALSE
    [] v.t = "boolean" -> v.b
    [] v.t = "number" -> v.n # 0
    [] v.t = "string" -> v.s # ""
    [] OTHER -> TRUE

IsArray(v) == v.t = "array"

\* the decimal digits, used for array and string index keys
Digits == "0123456789"

\* the property name of index i (0-based) of an array or a string
IndexKey(i) == SubSeq(Digits, i + 1, i + 1)

\* the keys of sequence kvs, in order
KeysOfPairs(kvs) == [i \in 1..Len(kvs) |-> kvs[i][1]]

\* Object.keys(v) for a value that is not null or undefined
ObjectKeys(v) ==
  CASE v.t = "object" -> KeysOfPairs(v.kvs)
    [] v.t = "array" -> [i \in 1..Len(v.es) |-> IndexKey(i - 1)]
    [] v.t = "string" -> [i \in 1..Len(v.s) |-> IndexKey(i - 1)]
    [] OTHER -> <<>>

\* v || {}
OrEmpty(v) == IF Truthy(v) THEN v ELSE JObj(<<>>)

\* [...new Set(s)]: the first occurrence of every element, in order
RECURSIVE Dedupe(_)
Dedupe(s) ==
  IF s = <<>> THEN <<>>
  ELSE LET front == Dedupe(SubSeq(s, 1, Len(s) - 1))
           last == s[Len(s)]
       IN IF \E i \in 1..Len(front) : front[i] = last
          THEN front
          ELSE Append(front, last)

\* Object.prototype.hasOwnProperty.call(v, key) for a truthy v
HasOwnProperty(v, key) ==
  CASE v.t = "object" -> \E i \in 1..Len(v.kvs) : v.kvs[i][1] = key
    [] v.t = "array" ->
         key = "length" \/ \E i \in 1..Len(v.es) : IndexKey(i - 1) = key
    [] v.t = "string" ->
         key = "length" \/ \E i \in 1..Len(v.s) : IndexKey(i - 1) = key
    [] OTHER -> FALSE

\* v[key] for a value that is not null or undefined
GetMember(v, key) ==
  CASE v.t = "object" ->
         IF \E i \in 1..Len(v.kvs) : v.kvs[i][1] = key
         THEN v.kvs[CHOOSE i \in 1..Len(v.kvs) : v.kvs[i][1] = key][2]
         ELSE JUndef
    [] v.t = "array" ->
         IF key = "length" THEN JNum(Len(v.es))
         ELSE IF \E i \in 1..Len(v.es) : IndexKey(i - 1) = key
         THEN v.es[CHOOSE i \in 1..Len(v.es) : IndexKey(i - 1) = key]
         ELSE JUndef
    [] v.t = "string" ->
         IF key = "length" THEN JNum(Len(v.s))
         ELSE IF \E i \in 1..Len(v.s) : IndexKey(i - 1) = key
         THEN LET i == CHOOSE j \in 1..Len(v.s) : IndexKey(j - 1) = key
              IN JStr(SubSeq(v.s, i, i))
         ELSE JUndef
    [] OTHER -> JUndef

\* v?.[key]
OptGet(v, key) ==
  IF v.t \in {"null", "undefined"} THEN JUndef ELSE GetMember(v, key)

\* v with its own data property key set to val (key is an own property of v)
SetMember(v, key, val) ==
  CASE v.t = "object" ->
         JObj([i \in 1..Len(v.kvs) |->
                 IF v.kvs[i][1] = key THEN <<key, val>> ELSE v.kvs[i]])
    [] v.t = "array" ->
         JArr([i \in 1..Len(v.es) |->
                 IF IndexKey(i - 1) = key THEN val ELSE v.es[i]])
    [] OTHER -> v

\* s1, s2, ... joined with sep
RECURSIVE Join(_, _)
Join(strs, sep) ==
  IF strs = <<>> THEN ""
  ELSE IF Len(strs) = 1 THEN strs[1]
  ELSE strs[1] \o sep \o Join(Tail(strs), sep)

\* JSON.stringify(v) without an indent; the strings of the model hold no
\* character that JSON.stringify escapes
RECURSIVE Stringify(_)
Stringify(v) ==
  CASE v.t = "null" -> "null"
    [] v.t = "boolean" -> IF v.b THEN "true" ELSE "false"
    [] v.t = "number" -> ToString(v.n)
    [] v.t = "string" -> "\"" \o v.s \o "\""
    [] v.t = "array" ->
         "[" \o Join([i \in 1..Len(v.es) |-> Stringify(v.es[i])], ",") \o "]"
    [] v.t = "object" ->
         "{" \o Join([i \in 1..Len(v.kvs) |->
                        "\"" \o v.kvs[i][1] \o "\":" \o Stringify(v.kvs[i][2])],
                     ",") \o "}"

\* String(v), the conversion Array.prototype.sort applies to its elements
RECURSIVE ToStr(_)
ToStr(v) ==
  CASE v.t = "null" -> "null"
    [] v.t = "undefined" -> "undefined"
    [] v.t = "boolean" -> IF v.b THEN "true" ELSE "false"
    [] v.t = "number" -> ToString(v.n)
    [] v.t = "string" -> v.s
    [] v.t = "array" ->
         Join([i \in 1..Len(v.es) |->
                 IF v.es[i].t \in {"null", "undefined"} THEN ""
                 ELSE ToStr(v.es[i])], ",")
    [] v.t = "object" -> "[object Object]"

\* the characters of the model's strings in ascending UTF-16 code unit order
CodeOrder ==
  " \",-./0123456789:ABCDEFGHIJKLMNOPQRSTUVWXYZ[]_abcdefghijklmnopqrstuvwxyz{}"

CharCode(c) == CHOOSE i \in 1..Len(CodeOrder) : SubSeq(CodeOrder, i, i) = c

\* s1 < s2 as JavaScript compares strings (by code unit)
RECURSIVE StrLess(_, _)
StrLess(s1, s2) ==
  IF s2 = "" THEN FALSE
  ELSE IF s1 = "" THEN TRUE
  ELSE LET c1 == CharCode(Head(s1))
           c2 == CharCode(Head(s2))
       IN IF c1 # c2 THEN c1 < c2 ELSE StrLess(Tail(s1), Tail(s2))

\* sorted with x inserted behind every element that does not sort after it
RECURSIVE InsertSorted(_, _)
InsertSorted(sorted, x) ==
  IF sorted = <<>> THEN <<x>>
  ELSE LET last == sorted[Len(sorted)]
       IN IF StrLess(ToStr(x), ToStr(last))
          THEN Append(InsertSorted(SubSeq(sorted, 1, Len(sorted) - 1), x), last)
          ELSE Append(sorted, x)

\* es after es.sort() with the default comparator (a stable sort on String(e))
RECURSIVE SortElems(_)
SortElems(es) ==
  IF es = <<>> THEN <<>>
  ELSE InsertSorted(SortElems(SubSeq(es, 1, Len(es) - 1)), es[Len(es)])

ArraySort(v) == JArr(SortElems(v.es))

\* both values are objects that are neither null nor arrays
BothPlainObjects(x, y) == x.t = "object" /\ y.t = "object"

(***************************************************************************)
(* diffObjects of the stand-alone script.  The call sorts, in place, every *)
(* array it compares, so the result carries the change list and the two    *)
(* arguments as they are when the call returns.                            *)
(***************************************************************************)
RECURSIVE DiffObjects(_, _, _)
RECURSIVE DiffKeys(_, _, _, _, _)

\* v == undefined: null counts as missing too
IsMissingLoose(v) == v.t \in {"undefined", "null"}

\* v === undefined
IsMissing(v) == v = JUndef

\* one iteration of the loop `for (const key of keys)`: the changes pushed
\* and the two values held under key afterwards
DiffKey(oldObj, newObj, pathPrefix, key) ==
  LET fullPath == IF pathPrefix # "" THEN pathPrefix \o "." \o key ELSE key
      oldVal == OptGet(oldObj, key)
      newVal == OptGet(newObj, key)
      same == [changes |-> <<>>, oldVal |-> oldVal, newVal |-> newVal]
      modified == [type |-> "modified", path |-> fullPath,
                   oldVal |-> oldVal, newVal |-> newVal]
  IN IF IsMissing(oldVal)
     THEN [same EXCEPT !.changes =
             <<[type |-> "added", path |-> fullPath, newVal |-> newVal]>>]
     ELSE IF IsMissing(newVal)
     THEN [same EXCEPT !.changes =
             <<[type |-> "removed", path |-> fullPath, oldVal |-> oldVal]>>]
     ELSE IF TypeOf(oldVal) # TypeOf(newVal)
     THEN [same EXCEPT !.changes = <<modified>>]
     ELSE IF BothPlainObjects(oldVal, newVal)
     THEN LET sub == DiffObjects(oldVal, newVal, fullPath)
          IN [changes |-> sub.changes, oldVal |-> sub.oldObj,
              newVal |-> sub.newObj]
     ELSE IF IsArray(oldVal) /\ IsArray(newVal)
     THEN LET oldSorted == ArraySort(oldVal)
              newSorted == ArraySort(newVal)
          IN [changes |->
                IF Stringify(oldSorted) # Stringify(newSorted)
                THEN <<[type |-> "modified", path |-> fullPath,
                        oldVal |-> oldSorted, newVal |-> newSorted]>>
                ELSE <<>>,
              oldVal |-> oldSorted, newVal |-> newSorted]
     ELSE IF Stringify(oldVal) # Stringify(newVal)
     THEN [same EXCEPT !.changes = <<modified>>]
     ELSE same

\* the loop over keys[i..], from the change list and the arguments so far
DiffKeys(oldObj, newObj, pathPrefix, keys, changes) ==
  IF keys = <<>>
  THEN [changes |-> changes, oldObj |-> oldObj, newObj |-> newObj]
  ELSE LET key == Head(keys)
           step == DiffKey(oldObj, newObj, pathPrefix, key)
       IN DiffKeys(
            IF step.oldVal = OptGet(oldObj, key) THEN oldObj
            ELSE SetMember(oldObj, key, step.oldVal),
            IF step.newVal = OptGet(newObj, key) THEN newObj
            ELSE SetMember(newObj, key, step.newVal),
            pathPrefix, Tail(keys), changes \o step.changes)

DiffObjects(oldObj, newObj, pathPrefix) ==
  LET keys == Dedupe(ObjectKeys(OrEmpty(oldObj)) \o ObjectKeys(OrEmpty(newObj)))
  IN DiffKeys(oldObj, newObj, pathPrefix, keys, <<>>)

(***************************************************************************)
(* AdvancedComparator.compareObjects.                                      *)
(***************************************************************************)
RECURSIVE CompareObjects(_, _, _, _)

\* prev && Object.prototype.hasOwnProperty.call(prev, key), as a condition
HasKey(v, key) == Truthy(v) /\ HasOwnProperty(v, key)

\* the branch "Key added" taken whenever curr has the key
KeyAddedAlways(prevHasKey, currHasKey) == currHasKey

\* the test of the branch "Key added"
KeyAdded(prevHasKey, currHasKey) == ~prevHasKey /\ currHasKey

\* the branch "Key removed" taken whenever prev has the key
KeyRemovedAlways(prevHasKey, currHasKey) == prevHasKey

\* the test of the branch "Key removed"
KeyRemoved(prevHasKey, currHasKey) == prevHasKey /\ ~currHasKey


\* one iteration of the loop `for (const key of allKeys)`
CompareKey(prev, curr, basePath, category, key) ==
  LET currentPath == IF basePath # "" THEN basePath \o "." \o key ELSE key
      prevHasKey == HasKey(prev, key)
      currHasKey == HasKey(curr, key)
      prevVal == GetMember(prev, key)
      currVal == GetMember(curr, key)
      modified == [type |-> "modified", path |-> currentPath,
                   oldVal |-> prevVal, newVal |-> currVal,
                   category |-> category]
  IN IF KeyAdded(prevHasKey, currHasKey)
     THEN <<[type |-> "added", path |-> currentPath, newVal |-> currVal,
             category |-> category]>>
     ELSE IF KeyRemoved(prevHasKey, currHasKey)
     THEN <<[type |-> "removed", path |-> currentPath, oldVal |-> prevVal,
             category |-> category]>>
     ELSE IF prevHasKey /\ currHasKey
     THEN IF TypeOf(prevVal) # TypeOf(currVal)
          THEN <<modified>>
          ELSE IF BothPlainObjects(prevVal, currVal)
          THEN CompareObjects(prevVal, currVal, currentPath, category)
          ELSE IF IsArray(prevVal) /\ IsArray(currVal)
          THEN IF Stringify(prevVal) # Stringify(currVal)
               THEN <<modified>>
               ELSE <<>>
          \* prevVal !== currVal: primitives by value; of two values of type
          \* "object" that reach this line one is null or an array
          ELSE IF TypeOf(prevVal) = "object"
          THEN IF prevVal.t = "null" /\ currVal.t = "null"
               THEN <<>>
               ELSE <<modified>>
          ELSE IF prevVal # currVal
          THEN <<modified>>
          ELSE <<>>
     ELSE <<>>

RECURSIVE CompareKeys(_, _, _, _, _)
CompareKeys(prev, curr, basePath, category, keys) ==
  IF keys = <<>> THEN <<>>
  ELSE CompareKey(prev, curr, basePath, category, Head(keys))
         \o CompareKeys(prev, curr, basePath, category, Tail(keys))

CompareObjects(prev, curr, basePath, category) ==
  LET allKeys == Dedupe(ObjectKeys(OrEmpty(prev)) \o ObjectKeys(OrEmpty(curr)))
  IN CompareKeys(prev, curr, basePath, category, allKeys)

(***************************************************************************)
(* determinePriority and its rule table.                                   *)
(***************************************************************************)
\* PRIORITY_RULES without its "default" entry, in Object.entries order
PRIORITY_RULES ==
  << <<"auth/", "P0">>, <<"security", "P0">>, <<"permissions", "P0">>,
     <<"authentication", "P0">>, <<"authorization", "P0">>,
     <<"actions/", "P1">>, <<"events/", "P1">>, <<"file-added", "P1">>,
     <<"file-removed", "P1">>, <<"folder-added", "P1">>,
     <<"folder-removed", "P1">>, <<"endpoint", "P1">>, <<"httpMethod", "P1">>,
     <<"inputFields", "P1">>, <<"outputFields", "P1">>, <<"trigger", "P1">>,
     <<"payload", "P1">> >>

\* PRIORITY_RULES.default
DefaultPriority == "P2"

\* String.prototype.toLowerCase, on the letters A-Z
RECURSIVE ToLowerCase(_)
ToLowerCase(s) ==
  IF s = "" THEN ""
  ELSE LET c == SubSeq(s, 1, 1)
           lower == [A |-> "a", B |-> "b", C |-> "c", D |-> "d", E |-> "e",
                     F |-> "f", G |-> "g", H |-> "h", I |-> "i", J |-> "j",
                     K |-> "k", L |-> "l", M |-> "m", N |-> "n", O |-> "o",
                     P |-> "p", Q |-> "q", R |-> "r", S |-> "s", T |-> "t",
                     U |-> "u", V |-> "v", W |-> "w", X |-> "x", Y |-> "y",
                     Z |-> "z"]
       IN (IF c \in DOMAIN lower THEN lower[c] ELSE c)
            \o ToLowerCase(SubSeq(s, 2, Len(s)))

\* s.includes(pattern)
Includes(s, pattern) ==
  \E i \in 1..(Len(s) - Len(pattern) + 1) :
    SubSeq(s, i, i + Len(pattern) - 1) = pattern

\* change[field] && change[field].includes(pattern), for a string field
\* the test made on path, file and folder but not on type
FieldIncludesButType(change, field, pattern) ==
  /\ field \in DOMAIN change
  /\ field # "type"
  /\ change[field] # ""
  /\ Includes(change[field], pattern)

FieldIncludes(change, field, pattern) ==
  /\ field \in DOMAIN change
  /\ change[field] # ""
  /\ Includes(change[field], pattern)

\* the test on a string value made without regard to letter case
ValueIncludesAnyCase(change, field, pattern) ==
  /\ field \in DOMAIN change
  /\ change[field].t = "string"
  /\ Includes(ToLowerCase(change[field].s), ToLowerCase(pattern))

\* typeof change[field] === "string" && change[field].includes(pattern)
ValueIncludes(change, field, pattern) ==
  /\ field \in DOMAIN change
  /\ change[field].t = "string"
  /\ Includes(change[field].s, pattern)

\* the body of the loop over the rules: does the rule's pattern match
RuleMatches(change, pattern) ==
  \/ FieldIncludes(change, "path", pattern)
  \/ FieldIncludes(change, "file", pattern)
  \/ FieldIncludes(change, "folder", pattern)
  \/ FieldIncludes(change, "type", pattern)
  \/ /\ "type" \in DOMAIN change
     /\ change.type = "modified"
     /\ \/ ValueIncludes(change, "oldVal", pattern)
        \/ ValueIncludes(change, "newVal", pattern)

\* the exact-match test written with the key of the rule table, "auth/"
IsAuthCategorySlash(change) ==
  "category" \in DOMAIN change /\ change.category = "auth/"

\* change.category === "auth"
IsAuthCategory(change) ==
  "category" \in DOMAIN change /\ change.category = "auth"

\* the loop returning the priority of the last matching rule
DeterminePriorityLast(change) ==
  IF IsAuthCategory(change) THEN "P0"
  ELSE LET hits == {i \in 1..Len(PRIORITY_RULES) :
                      RuleMatches(change, PRIORITY_RULES[i][1])}
       IN IF hits = {} THEN DefaultPriority
          ELSE PRIORITY_RULES[CHOOSE i \in hits : \A j \in hits : i >= j][2]

DeterminePriority(change) ==
  IF IsAuthCategory(change) THEN "P0"
  ELSE LET hits == {i \in 1..Len(PRIORITY_RULES) :
                      RuleMatches(change, PRIORITY_RULES[i][1])}
       IN IF hits = {} THEN DefaultPriority
          ELSE PRIORITY_RULES[CHOOSE i \in hits : \A j \in hits : i <= j][2]

(***************************************************************************)
(* The two directory trees.  A node is a directory, a file or nothing.     *)
(***************************************************************************)
\* the category folders, in traversal order
SUBFOLDERS == <<"actions", "auth", "events", "meta", "metadata">>

Range(s) == {s[i] : i \in 1..Len(s)}

\* a path at which nothing exists
NoEntry == [kind |-> "none"]

\* a file that is not a directory entry of interest to the listing (README)
PlainFile == [kind |-> "file"]

\* the text of a .json file: unparsable, or the value JSON.parse returns
Invalid == [ok |-> FALSE]
Parsed(doc) == [ok |-> TRUE, doc |-> doc]

\* a category folder: its .json files, name -> text
Folder(files) == [kind |-> "folder", files |-> files]

\* a connector directory: category folder name -> Folder or NoEntry
ConnectorDir(sub) == [kind |-> "connector", sub |-> sub]

\* a root directory: entry name -> ConnectorDir or PlainFile
RootDir(entries) == [kind |-> "root", entries |-> entries]

\* fs.existsSync(p) / pathExists(p)
PathExists(node) == node.kind # "none"

\* loadJSON: the parsed value, null when the text does not parse
LoadJSON(text) == IF text.ok THEN text.doc ELSE JNull

\* path.join(dir, name)
PathJoin(dir, name) == dir \o "/" \o name

\* the names of S in the order fs.readdir lists them (by name)
RECURSIVE SortedNames(_)
SortedNames(S) ==
  IF S = {} THEN <<>>
  ELSE LET first == CHOOSE x \in S : \A y \in S \ {x} : StrLess(x, y)
       IN <<first>> \o SortedNames(S \ {first})

\* the node at root/name
\* the first entry of the directory, whatever the name asked for
EntryAtFirst(root, name) ==
  IF root.kind = "root" /\ DOMAIN root.entries # {}
  THEN root.entries[CHOOSE n \in DOMAIN root.entries :
                      \A o \in DOMAIN root.entries \ {n} : StrLess(n, o)]
  ELSE NoEntry

EntryAt(root, name) ==
  IF root.kind = "root" /\ name \in DOMAIN root.entries
  THEN root.entries[name]
  ELSE NoEntry

\* the node at connector/folder
FolderAt(connector, folder) ==
  IF connector.kind = "connector" THEN connector.sub[folder] ELSE NoEntry

\* fs.readdir(root): every entry name
ReadRoot(root) ==
  IF root.kind = "root" THEN SortedNames(DOMAIN root.entries) ELSE <<>>

\* the .json file names of a folder, as fs.readdir lists them
JsonFileNames(folder) ==
  IF folder.kind = "folder" THEN SortedNames(DOMAIN folder.files) ELSE <<>>

\* names.filter(name => keep.has(name))
RECURSIVE SelectNames(_, _)
SelectNames(names, keep) ==
  IF names = <<>> THEN <<>>
  ELSE (IF Head(names) \in keep THEN <<Head(names)>> ELSE <<>>)
         \o SelectNames(Tail(names), keep)

\* concatenation of the sequences f[n], ..., f[1]
RECURSIVE FlattenReversed(_)
FlattenReversed(seqs) ==
  IF seqs = <<>> THEN <<>> ELSE FlattenReversed(Tail(seqs)) \o Head(seqs)

\* concatenation of the sequences f[1], ..., f[n]
RECURSIVE Flatten(_)
Flatten(seqs) ==
  IF seqs = <<>> THEN <<>> ELSE Head(seqs) \o Flatten(Tail(seqs))

(***************************************************************************)
(* compareConnectors of the stand-alone script.                            *)
(***************************************************************************)
\* collectJSONFiles: <<name, parsed value>> in insertion order, {} when the
\* folder does not exist
CollectJSONFiles(folder) ==
  LET names == JsonFileNames(folder)
  IN [i \in 1..Len(names) |-> <<names[i], LoadJSON(folder.files[names[i]])>>]

\* prevFiles[file]
FileValue(files, file) ==
  IF \E i \in 1..Len(files) : files[i][1] = file
  THEN files[CHOOSE i \in 1..Len(files) : files[i][1] = file][2]
  ELSE JUndef

\* file.replace(".json", "")
StripJson(file) ==
  IF Includes(file, ".json")
  THEN LET i == CHOOSE k \in 1..Len(file) :
                  /\ SubSeq(file, k, k + 4) = ".json"
                  /\ \A j \in 1..(k - 1) : SubSeq(file, j, j + 4) # ".json"
       IN SubSeq(file, 1, i - 1) \o SubSeq(file, i + 5, Len(file))
  ELSE file

\* { ...diff, category: subfolder, priority: determinePriority(...) }
Enhance(diff, subfolder) ==
  LET tagged == [f \in DOMAIN diff \cup {"category"} |->
                   IF f = "category" THEN subfolder ELSE diff[f]]
  IN [f \in DOMAIN tagged \cup {"priority"} |->
        IF f = "priority" THEN DeterminePriority(tagged) ELSE tagged[f]]

\* !oldJson: the previous side has no file of the name, or one whose parsed
\* value is falsy (null after a parse error included)
IsNewFile(oldJson) == ~Truthy(oldJson)

\* the body of `for (const file of allFiles)`
LegacyFileChanges(prevFiles, currFiles, subfolder, file) ==
  LET oldJson == FileValue(prevFiles, file)
      newJson == FileValue(currFiles, file)
      present == [file |-> PathJoin(subfolder, file), category |-> subfolder]
  IN IF IsNewFile(oldJson)
     THEN <<Enhance([type |-> "file-added"] @@ present, subfolder)>>
     ELSE IF ~Truthy(newJson)
     THEN <<Enhance([type |-> "file-removed"] @@ present, subfolder)>>
     ELSE LET diffs == DiffObjects(oldJson, newJson,
                                   PathJoin(subfolder, StripJson(file))).changes
          IN [i \in 1..Len(diffs) |-> Enhance(diffs[i], subfolder)]

\* the body of `for (const subfolder of SUBFOLDERS)`
LegacySubfolderChanges(prevDir, currDir, subfolder) ==
  LET prevSub == FolderAt(prevDir, subfolder)
      currSub == FolderAt(currDir, subfolder)
      prevFiles == CollectJSONFiles(prevSub)
      currFiles == CollectJSONFiles(currSub)
      allFiles == Dedupe(KeysOfPairs(prevFiles) \o KeysOfPairs(currFiles))
      folderChange(type) ==
        Enhance([type |-> type, folder |-> subfolder, category |-> subfolder],
                subfolder)
  IN Flatten([i \in 1..Len(allFiles) |->
                LegacyFileChanges(prevFiles, currFiles, subfolder, allFiles[i])])
       \o (IF ~PathExists(prevSub) /\ PathExists(currSub)
           THEN <<folderChange("folder-added")>>
           ELSE IF PathExists(prevSub) /\ ~PathExists(currSub)
           THEN <<folderChange("folder-removed")>>
           ELSE <<>>)

\* the body of `for (const connector of allConnectors)`
LegacyReport(prevRoot, currRoot, connector) ==
  LET prevDir == EntryAt(prevRoot, connector)
      currDir == EntryAt(currRoot, connector)
  IN [connector |-> connector,
      changes |-> Flatten([i \in 1..Len(SUBFOLDERS) |->
                    LegacySubfolderChanges(prevDir, currDir, SUBFOLDERS[i])])]

\* compareConnectors(prevPath, currPath) of the script: the list it returns
LegacyCompareConnectors(prevRoot, currRoot) ==
  IF ~PathExists(prevRoot) THEN <<>>
  ELSE IF ~PathExists(currRoot) THEN <<>>
  ELSE LET allConnectors == Dedupe(ReadRoot(prevRoot) \o ReadRoot(currRoot))
       IN [i \in 1..Len(allConnectors) |->
             LegacyReport(prevRoot, currRoot, allConnectors[i])]

(***************************************************************************)
(* AdvancedComparator: compareConnectors and what it calls.                *)
(***************************************************************************)
\* scanAllFiles(dirPath): every .json file below the directory
ScanAllFiles(node, dirPath) ==
  IF node.kind = "folder"
  THEN LET names == JsonFileNames(node)
       IN [i \in 1..Len(names) |->
             [file |-> names[i], path |-> PathJoin(dirPath, names[i])]]
  ELSE IF node.kind = "connector"
  THEN LET dirs == SortedNames({f \in DOMAIN node.sub : PathExists(node.sub[f])})
       IN Flatten([i \in 1..Len(dirs) |->
             LET names == JsonFileNames(node.sub[dirs[i]])
             IN [j \in 1..Len(names) |->
                   [file |-> names[j],
                    path |-> PathJoin(PathJoin(dirPath, dirs[i]), names[j])]]])
  ELSE <<>>

\* folderChanges.forEach(change => { change.type = type; change.category = .. })
Retyped(files, type) ==
  [i \in 1..Len(files) |-> [type |-> type] @@ files[i]]

Categorised(files, type, folder) ==
  [i \in 1..Len(files) |-> [type |-> type, category |-> folder] @@ files[i]]

\* a folder in which no file is ever found
FileMissing(folder, file) == FALSE

\* pathExists(path.join(folderPath, file))
FileExists(folder, file) ==
  folder.kind = "folder" /\ file \in DOMAIN folder.files

\* compareJsonFiles(prevPath, currPath, category)
CompareJsonFiles(prevFolder, currFolder, file, category) ==
  LET prevExists == FileExists(prevFolder, file)
      currExists == FileExists(currFolder, file)
      fileName == file
  IN IF ~prevExists /\ currExists
     THEN <<[type |-> "file-added", file |-> fileName, category |-> category]>>
     ELSE IF prevExists /\ ~currExists
     THEN <<[type |-> "file-removed", file |-> fileName,
             category |-> category]>>
     ELSE IF prevExists /\ currExists
     THEN LET prevData == LoadJSON(prevFolder.files[file])
              currData == LoadJSON(currFolder.files[file])
          IN IF ~Truthy(prevData) \/ ~Truthy(currData)
             THEN <<>>
             ELSE CompareObjects(prevData, currData, "", category)
     ELSE <<>>

\* compareFolderContents(prevPath, currPath, category)
CompareFolderContents(prevFolder, currFolder, category) ==
  LET allFiles == Dedupe(JsonFileNames(prevFolder) \o JsonFileNames(currFolder))
  IN Flatten([i \in 1..Len(allFiles) |->
                CompareJsonFiles(prevFolder, currFolder, allFiles[i], category)])

\* a folder that is never taken as removed
FolderRemovedNever(prevFolderExists, currFolderExists) == FALSE

\* `if (prevFolderExists && !currFolderExists)`
FolderRemoved(prevFolderExists, currFolderExists) ==
  prevFolderExists /\ ~currFolderExists

\* the body of `for (const folder of folders)` of compareConnector
CompareFolder(prevConnector, currConnector, prevPath, currPath, folder) ==
  LET prevFolder == FolderAt(prevConnector, folder)
      currFolder == FolderAt(currConnector, folder)
      prevFolderExists == PathExists(prevFolder)
      currFolderExists == PathExists(currFolder)
  IN IF ~prevFolderExists /\ currFolderExists
     THEN <<[type |-> "folder-added", folder |-> folder, category |-> folder]>>
            \o Categorised(ScanAllFiles(currFolder, PathJoin(currPath, folder)),
                           "file-added", folder)
     ELSE IF FolderRemoved(prevFolderExists, currFolderExists)
     THEN <<[type |-> "folder-removed", folder |-> folder,
             category |-> folder]>>
            \o Categorised(ScanAllFiles(prevFolder, PathJoin(prevPath, folder)),
                           "file-removed", folder)
     ELSE IF prevFolderExists /\ currFolderExists
     THEN CompareFolderContents(prevFolder, currFolder, folder)
     ELSE <<>>

\* compareConnector(prevConnectorPath, currConnectorPath)
CompareConnector(prevConnector, currConnector, prevPath, currPath) ==
  LET prevExists == PathExists(prevConnector)
      currExists == PathExists(currConnector)
  IN IF ~prevExists /\ currExists
     THEN Retyped(ScanAllFiles(currConnector, currPath), "file-added")
     ELSE IF prevExists /\ ~currExists
     THEN Retyped(ScanAllFiles(prevConnector, prevPath), "file-removed")
     ELSE Flatten([i \in 1..Len(SUBFOLDERS) |->
            CompareFolder(prevConnector, currConnector, prevPath, currPath,
                          SUBFOLDERS[i])])

\* every entry of the root taken as a connector
ListEntries(root) == ReadRoot(root)

\* listConnectors(basePath): the directories of the root
ListConnectors(root) ==
  IF ~PathExists(root) THEN <<>>
  ELSE LET names == ReadRoot(root)
       IN SelectNames(names,
            {n \in Range(names) : root.entries[n].kind = "connector"})

\* the two root paths handed to the comparison
PrevPath == "connectors/previous"
CurrPath == "connectors/current"

\* validatePaths that rejects the roots when either of them is missing
ValidatePathsStrict(prevRoot, currRoot) ==
  PathExists(prevRoot) /\ PathExists(currRoot)

\* validatePaths(prevPath, currPath): TRUE when it returns, FALSE when it throws
ValidatePaths(prevRoot, currRoot) ==
  ~(~PathExists(prevRoot) /\ ~PathExists(currRoot))

\* the body of `for (const connector of allConnectors)`: the report pushed;
\* failing holds the connectors at which compareConnector raises an error
ConnectorReport(prevRoot, currRoot, connector, failing) ==
  IF connector \in failing
  THEN [connector |-> connector, changes |-> <<>>,
        processingError |-> "compareConnector failed"]
  ELSE [connector |-> connector,
        changes |-> CompareConnector(EntryAt(prevRoot, connector),
                                     EntryAt(currRoot, connector),
                                     PathJoin(PrevPath, connector),
                                     PathJoin(CurrPath, connector))]

\* compareConnectors(prevPath, currPath): what the call returns or throws
CompareConnectors(prevRoot, currRoot, failing) ==
  IF ~ValidatePaths(prevRoot, currRoot)
  THEN [threw |-> TRUE,
        error |-> "Both connector paths do not exist: " \o PrevPath
                    \o " and " \o CurrPath]
  ELSE LET allConnectors ==
             Dedupe(ListConnectors(prevRoot) \o ListConnectors(currRoot))
       IN [threw |-> FALSE,
           results |-> [i \in 1..Len(allConnectors) |->
                          ConnectorReport(prevRoot, currRoot, allConnectors[i],
                                          failing)]]

(***************************************************************************)
(* FunctionalChangeDetectionTool.runComparison, up to the comparison.      *)
(***************************************************************************)
\* validateEnvironment(): both roots are accessible
ValidateEnvironment(prevRoot, currRoot) ==
  PathExists(prevRoot) /\ PathExists(currRoot)

\* runComparison(): what the comparison part returns or throws
RunComparison(prevRoot, currRoot, failing) ==
  IF ~ValidateEnvironment(prevRoot, currRoot)
  THEN [threw |-> TRUE, error |-> "Invalid connector source directories"]
  ELSE CompareConnectors(prevRoot, currRoot, failing)

(***************************************************************************)
(* The first AdvancedComparator of advanced-comparator.js and the first    *)
(* FunctionalChangeDetectionTool of index.js.                              *)
(***************************************************************************)
\* compareConnector(prevConnectorPath, currConnectorPath) of the first class:
\* compareFiles calls createFileAddedChange, createFileRemovedChange or
\* compareFileContents, none of which the class defines; the TypeError ends
\* in the catch of compareFiles, which returns null, and compareFolderContents
\* pushes no null; with neither file in place compareFiles returns null too
CompareConnectorV1(prevConnector, currConnector) == <<>>

\* compareConnectors(prevPath, currPath) of the first class
CompareConnectorsV1(prevRoot, currRoot, failing) ==
  IF ~PathExists(prevRoot) \/ ~PathExists(currRoot)
  THEN [threw |-> TRUE, error |-> "Invalid connector paths"]
  ELSE LET allConnectors ==
             Dedupe(ListConnectors(prevRoot) \o ListConnectors(currRoot))
           report(connector) ==
             IF connector \in failing
             THEN [connector |-> connector,
                   processingError |-> "compareConnector failed"]
             ELSE [connector |-> connector,
                   changes |-> CompareConnectorV1(EntryAt(prevRoot, connector),
                                                  EntryAt(currRoot, connector))]
       IN [threw |-> FALSE,
           results |-> [i \in 1..Len(allConnectors) |->
                          report(allConnectors[i])]]

\* runComparison() of the first tool, up to the enriched results:
\* result.changes.map(...) on a report that holds no changes is a TypeError
RunComparisonV1(prevRoot, currRoot, failing) ==
  IF ~PathExists(prevRoot) \/ ~PathExists(currRoot)
  THEN [threw |-> TRUE, error |-> "Invalid connector source directories"]
  ELSE LET r == CompareConnectorsV1(prevRoot, currRoot, failing)
       IN IF r.threw THEN r
          ELSE IF \E i \in 1..Len(r.results) :
                    "changes" \notin DOMAIN r.results[i]
          THEN [threw |-> TRUE,
                error |-> "Cannot read properties of undefined (reading 'map')"]
          ELSE r

(***************************************************************************)
(* The paths a run hands to fs.readdir and fs.readFile.                    *)
(***************************************************************************)
\* the folder scanned after folder-removed was pushed, taken from current
ScannedOnRemovalCurrent(prevFolderPath, currFolderPath) == currFolderPath

\* `await this.scanAllFiles(prevFolderPath)` after folder-removed was pushed
ScannedOnRemoval(prevFolderPath, currFolderPath) == prevFolderPath

\* compareConnectors of the second AdvancedComparator: listConnectors lists
\* each root in place; compareConnector scans a connector under one root
\* only, and for one under both roots scans a folder of one side, or lists
\* both folders and loads the files that both hold
CompareReads(prevRoot, currRoot, failing) ==
  LET scan(node, dirPath) ==
        {dirPath} \cup
          (IF node.kind = "connector"
           THEN {PathJoin(dirPath, f) :
                   f \in {g \in DOMAIN node.sub : PathExists(node.sub[g])}}
           ELSE {})
      folder(prevFolder, currFolder, prevPath, currPath) ==
        IF ~PathExists(prevFolder) /\ PathExists(currFolder) THEN {currPath}
        ELSE IF PathExists(prevFolder) /\ ~PathExists(currFolder)
        THEN {ScannedOnRemoval(prevPath, currPath)}
        ELSE IF PathExists(prevFolder) /\ PathExists(currFolder)
        THEN {prevPath, currPath} \cup
               UNION {{PathJoin(prevPath, f), PathJoin(currPath, f)} :
                        f \in {g \in Range(JsonFileNames(prevFolder)) :
                                 FileExists(currFolder, g)}}
        ELSE {}
      connector(prev, curr, prevPath, currPath) ==
        IF ~PathExists(prev) /\ PathExists(curr) THEN scan(curr, currPath)
        ELSE IF PathExists(prev) /\ ~PathExists(curr)
        THEN scan(prev, prevPath)
        ELSE UNION {folder(FolderAt(prev, f), FolderAt(curr, f),
                           PathJoin(prevPath, f), PathJoin(currPath, f)) :
                      f \in Range(SUBFOLDERS)}
      names == Range(ListConnectors(prevRoot) \o ListConnectors(currRoot))
  IN IF ~ValidatePaths(prevRoot, currRoot) THEN {}
     ELSE (IF PathExists(prevRoot) THEN {PrevPath} ELSE {})
            \cup (IF PathExists(currRoot) THEN {CurrPath} ELSE {})
            \cup UNION {connector(EntryAt(prevRoot, n), EntryAt(currRoot, n),
                                  PathJoin(PrevPath, n), PathJoin(CurrPath, n)) :
                          n \in names \ failing}

\* compareConnectors of the stand-alone script: both roots are listed, and
\* collectJSONFiles lists every folder in place and loads each of its files
LegacyReads(prevRoot, currRoot) ==
  LET collect(folder, dirPath) ==
        IF ~PathExists(folder) THEN {}
        ELSE {dirPath} \cup
               {PathJoin(dirPath, f) : f \in Range(JsonFileNames(folder))}
      names == Range(ReadRoot(prevRoot) \o ReadRoot(currRoot))
  IN IF ~PathExists(prevRoot) \/ ~PathExists(currRoot) THEN {}
     ELSE {PrevPath, CurrPath} \cup
            UNION {collect(FolderAt(EntryAt(root[1], n), f),
                           PathJoin(PathJoin(root[2], n), f)) :
                     root \in {<<prevRoot, PrevPath>>, <<currRoot, CurrPath>>},
                     n \in names, f \in Range(SUBFOLDERS)}

\* compareConnectors of the first AdvancedComparator: both roots are listed,
\* and listRelevantFiles lists each of the four folders in place
FirstReads(prevRoot, currRoot, failing) ==
  LET names == Range(ListConnectors(prevRoot) \o ListConnectors(currRoot))
      listed ==
        {x \in {<<prevRoot, PrevPath>>, <<currRoot, CurrPath>>}
                 \X (names \ failing)
                 \X {"actions", "auth", "events", "metadata"} :
           PathExists(FolderAt(EntryAt(x[1][1], x[2]), x[3]))}
  IN IF ~PathExists(prevRoot) \/ ~PathExists(currRoot) THEN {}
     ELSE {PrevPath, CurrPath} \cup
            {PathJoin(PathJoin(x[1][2], x[2]), x[3]) : x \in listed}

(***************************************************************************)
(* ReportGenerator.processReportData and its determinePriority.            *)
(***************************************************************************)
\* the keywords of priorityRules, level by level
ReportPriorityRules ==
  <<<<"P0", {"auth", "security", "token", "authentication", "credential",
             "permission"}>>,
    <<"P1", {"actions", "events", "endpoint", "trigger", "method", "output"}>>,
    <<"P2", {"metadata", "description", "version", "icon"}>>>>

\* JSON.stringify(change).toLowerCase(), as the texts of its keys and
\* values: a keyword is made of letters, so it lies within one of them
ChangeString(ch) ==
  {ToLowerCase(f) : f \in DOMAIN ch}
    \cup {ToLowerCase(IF f \in {"oldVal", "newVal"}
                      THEN Stringify(ch[f]) ELSE ch[f]) : f \in DOMAIN ch}

\* determinePriority(change) of the report generator
ReportPriority(ch) ==
  IF "priority" \in DOMAIN ch /\ ch.priority # "" THEN ch.priority
  ELSE LET changeString == ChangeString(ch)
           hit == {k \in 1..Len(ReportPriorityRules) :
                     \E w \in ReportPriorityRules[k][2] :
                       \E text \in changeString : Includes(text, w)}
       IN IF hit = {} THEN "P2"
          ELSE ReportPriorityRules[CHOOSE k \in hit :
                                     \A j \in hit : k <= j][1]

\* `if (change.file && change.path && change.path.includes('/'))`
PathCleared(ch) ==
  /\ "file" \in DOMAIN ch /\ ch.file # ""
  /\ "path" \in DOMAIN ch /\ ch.path # ""
  /\ Includes(ch.path, "/")

\* processReportData(comparisonResults): the data it returns and the list it
\* was handed, as the call leaves it; `change.path = undefined` is the
\* change without its path
ProcessReportData(comparisonResults) ==
  LET changesOf(report) ==
        IF "changes" \in DOMAIN report THEN report.changes ELSE <<>>
      after(ch) ==
        IF PathCleared(ch) THEN [f \in DOMAIN ch \ {"path"} |-> ch[f]] ELSE ch
      afterAll(changes) == [j \in 1..Len(changes) |-> after(changes[j])]
      processed(ch) ==
        [f \in DOMAIN ch \cup {"priority"} |->
           IF f = "priority" THEN ReportPriority(ch) ELSE ch[f]]
  IN [data |->
        [i \in 1..Len(comparisonResults) |->
           LET report == comparisonResults[i]
               changes == afterAll(changesOf(report))
           IN [connector |-> report.connector,
               changes |-> [j \in 1..Len(changes) |-> processed(changes[j])],
               error |-> IF "processingError" \in DOMAIN report
                         THEN JStr(report.processingError) ELSE JUndef]],
      input |->
        [i \in 1..Len(comparisonResults) |->
           LET report == comparisonResults[i]
           IN IF "changes" \in DOMAIN report
              THEN [report EXCEPT !.changes = afterAll(report.changes)]
              ELSE report]]

(***************************************************************************)
(* diffWords: what its loop calls.                                         *)
(***************************************************************************)
\* arr.push(x) that leaves the array as it was
PushDropped(arr, x) == arr

\* arr.push(x)
Push(arr, x) == Append(arr, x)

\* arr.indexOf(x, from) on the 0-based indices of JavaScript
IndexOf(arr, x, from) ==
  LET at == {k \in from..(Len(arr) - 1) : arr[k + 1] = x}
  IN IF at = {} THEN -1 ELSE CHOOSE k \in at : \A m \in at : k <= m

\* the whole numbers from..(to - 1) in ascending order, as `push(i++)`
\* appends them
Upto(from, to) == [k \in 1..(to - from) |-> from + k - 1]

(***************************************************************************)
(* AdvancedPrioritizer: the scores of the three rule sets.  The factors    *)
(* 1.5, 2.0, ... are kept as tenths, so that the scores are integers.      *)
(***************************************************************************)
\* loadPriorityRules(): the default rules, in the order of Object.entries
PriorityRules ==
  <<[level |-> "critical",
     keywords |-> {"auth", "security", "authentication", "token",
                   "permission", "access", "credential"},
     pathMatch |-> 15, keywordMatch |-> 20, structuralChange |-> 18,
     priority |-> "P0"],
    [level |-> "major",
     keywords |-> {"endpoint", "action", "event", "input", "output",
                   "method", "trigger"},
     pathMatch |-> 12, keywordMatch |-> 15, structuralChange |-> 13,
     priority |-> "P1"],
    [level |-> "minor",
     keywords |-> {"description", "metadata", "version", "category", "name",
                   "comment"},
     pathMatch |-> 10, keywordMatch |-> 10, structuralChange |-> 10,
     priority |-> "P2"]>>

\* `change.f || ''`, and `change.type || 'unknown'`
FieldOr(ch, f, default) ==
  IF f \in DOMAIN ch /\ ch[f] # "" THEN ch[f] ELSE default

\* normalizeChangeContext(change); value is the serialized change, as the
\* texts of its keys and values
NormalizeChangeContext(ch) ==
  [type |-> FieldOr(ch, "type", "unknown"),
   path |-> ToLowerCase(FieldOr(ch, "path", "")),
   file |-> ToLowerCase(FieldOr(ch, "file", "")),
   category |-> ToLowerCase(FieldOr(ch, "category", "")),
   value |-> ChangeString(ch)]

\* calculatePriorityScore(context, ruleSet), in tenths
CalculatePriorityScore(context, ruleSet) ==
  LET keywordMatches ==
        {keyword \in ruleSet.keywords :
           \/ Includes(context.type, keyword)
           \/ Includes(context.path, keyword)
           \/ Includes(context.file, keyword)
           \/ Includes(context.category, keyword)
           \/ \E text \in context.value : Includes(text, keyword)}
      pathMatches ==
        \E keyword \in ruleSet.keywords : Includes(context.path, keyword)
      structural ==
        context.type \in {"added", "removed", "modified", "file-added",
                          "file-removed"}
  IN Cardinality(keywordMatches) * ruleSet.keywordMatch
       + (IF pathMatches THEN ruleSet.pathMatch ELSE 0)
       + (IF structural THEN ruleSet.structuralChange ELSE 0)

\* the name of the selected rule set in place of its priority
CalculatePriorityLevel(ch) ==
  LET changeContext == NormalizeChangeContext(ch)
      scores == [k \in 1..Len(PriorityRules) |->
                   CalculatePriorityScore(changeContext, PriorityRules[k])]
      first == CHOOSE k \in 1..Len(PriorityRules) :
                 /\ \A j \in 1..Len(PriorityRules) : scores[j] <= scores[k]
                 /\ \A j \in 1..(k - 1) : scores[j] < scores[k]
  IN PriorityRules[first].level

\* calculatePriority(change): the stable sort by descending score puts the
\* first of the rule sets with the greatest score at index 0
CalculatePriority(ch) ==
  LET changeContext == NormalizeChangeContext(ch)
      scores == [k \in 1..Len(PriorityRules) |->
                   CalculatePriorityScore(changeContext, PriorityRules[k])]
      first == CHOOSE k \in 1..Len(PriorityRules) :
                 /\ \A j \in 1..Len(PriorityRules) : scores[j] <= scores[k]
                 /\ \A j \in 1..(k - 1) : scores[j] < scores[k]
  IN PriorityRules[first].priority

(***************************************************************************)
(* State.                                                                  *)
(***************************************************************************)
VARIABLES
  oldIn,       \* the first document handed to the differ, as parsed
  newIn,       \* the second document handed to the differ, as parsed
  pathPrefix,  \* the path prefix of the call
  category,    \* the category handed to compareObjects
  oldDoc,      \* the first document object, as the calls leave it
  newDoc,      \* the second document object, as the calls leave it
  differ,      \* the differ that ran: "diffObjects" or "compareObjects"
  phase,       \* "input", "forward" (diff(old, new) returned), "both"
  fwd,         \* the change list of diff(old, new)
  rev,         \* the change list of diff(new, old)
  words,       \* the call of diffWords: its arguments, locals and position
  change,      \* the change handed to determinePriority
  priority,    \* the priority determinePriority returned, "none" before
  calls,       \* the calls of the classifiers so far, each with its result
  prevRoot,    \* the directory tree at the previous root path
  currRoot,    \* the directory tree at the current root path
  failing,     \* the connectors at which compareConnector raises an error
  entry,       \* the entry point that ran: "script", "comparator", "tool"
  outcome,     \* "pending", "returned" or "threw"
  results,     \* the list of connector reports returned
  error,       \* the message of the error thrown
  reads,       \* the paths the run handed to fs.readdir and fs.readFile
  processed,   \* the data processReportData returned, once it has
  tasks        \* the calls of compareConnector in progress, by connector

diffVars == <<oldIn, newIn, pathPrefix, category, oldDoc, newDoc, differ,
              phase, fwd, rev, words>>

prioVars == <<change, priority, calls>>

treeVars == <<prevRoot, currRoot, failing, entry, outcome, results, error,
              reads, processed, tasks>>

vars == <<diffVars, prioVars, treeVars>>

\* the differs are not part of the run
DiffIdle ==
  /\ oldIn = JUndef /\ newIn = JUndef
  /\ oldDoc = JUndef /\ newDoc = JUndef
  /\ pathPrefix = "" /\ category = ""
  /\ differ = "none" /\ phase = "idle"
  /\ fwd = <<>> /\ rev = <<>>
  /\ words = [pc |-> "idle"]

\* the classifier is not part of the run
PrioIdle ==
  /\ change = [type |-> "none"]
  /\ priority = "idle"
  /\ calls = <<>>

\* the directory comparison is not part of the run
TreeIdle ==
  /\ prevRoot = NoEntry /\ currRoot = NoEntry
  /\ failing = {}
  /\ entry = "none" /\ outcome = "idle"
  /\ results = <<>> /\ error = ""
  /\ reads = {}
  /\ processed = [done |-> FALSE]
  /\ tasks = <<>>

(***************************************************************************)
(* The documents the differs are run on.                                   *)
(***************************************************************************)
MaxArrLen == 2

Keys == {"a", "b"}

Leaves == {JNull, JBool(TRUE), JNum(1), JStr("1")}

ArrElems == {JNum(1), JNum(2)}

Arrays == {JArr(es) : es \in UNION {[1..n -> ArrElems] : n \in 0..MaxArrLen}}

\* the objects over Keys, in every insertion order, with values from V
ObjectsOver(V) ==
  {JObj(<<>>)}
    \cup {JObj(<<<<k, v>>>>) : k \in Keys, v \in V}
    \cup {JObj(<<<<k[1], v[1]>>, <<k[2], v[2]>>>>) :
            k \in {kk \in Keys \X Keys : kk[1] # kk[2]}, v \in V \X V}

Values == Leaves \cup Arrays \cup ObjectsOver(Leaves)

Docs == Values \cup {JObj(<<<<k, v>>>>) : k \in Keys, v \in Values}

PathPrefixes == {"", "actions/f"}

(***************************************************************************)
(* The differs as operations.                                              *)
(***************************************************************************)
InitDiff ==
  /\ oldIn \in Docs
  /\ newIn \in Docs
  /\ pathPrefix \in PathPrefixes
  /\ category = "actions"
  /\ oldDoc = oldIn
  /\ newDoc = newIn
  /\ differ = "none"
  /\ phase = "input"
  /\ fwd = <<>>
  /\ rev = <<>>
  /\ words = [pc |-> "idle"]
  /\ PrioIdle
  /\ TreeIdle

\* diffObjects(oldDoc, newDoc, pathPrefix)
CallDiffObjects ==
  /\ phase = "input"
  /\ LET r == DiffObjects(oldDoc, newDoc, pathPrefix)
     IN /\ fwd' = r.changes
        /\ oldDoc' = r.oldObj
        /\ newDoc' = r.newObj
  /\ differ' = "diffObjects"
  /\ phase' = "forward"
  /\ UNCHANGED <<oldIn, newIn, pathPrefix, category, rev>>
  /\ UNCHANGED <<words, prioVars, treeVars>>

\* diffObjects(newDoc, oldDoc, pathPrefix), on the same two objects
CallDiffObjectsSwapped ==
  /\ phase = "forward"
  /\ differ = "diffObjects"
  /\ LET r == DiffObjects(newDoc, oldDoc, pathPrefix)
     IN /\ rev' = r.changes
        /\ newDoc' = r.oldObj
        /\ oldDoc' = r.newObj
  /\ phase' = "both"
  /\ UNCHANGED <<oldIn, newIn, pathPrefix, category, differ, fwd>>
  /\ UNCHANGED <<words, prioVars, treeVars>>

\* compareObjects(oldDoc, newDoc, pathPrefix, c)
CallCompareObjects ==
  /\ phase = "input"
  /\ \E c \in {"actions", "auth"} :
       /\ category' = c
       /\ fwd' = CompareObjects(oldDoc, newDoc, pathPrefix, c)
  /\ differ' = "compareObjects"
  /\ phase' = "forward"
  /\ UNCHANGED <<oldIn, newIn, pathPrefix, oldDoc, newDoc, rev>>
  /\ UNCHANGED <<words, prioVars, treeVars>>

\* compareObjects(newDoc, oldDoc, pathPrefix, category)
CallCompareObjectsSwapped ==
  /\ phase = "forward"
  /\ differ = "compareObjects"
  /\ rev' = CompareObjects(newDoc, oldDoc, pathPrefix, category)
  /\ phase' = "both"
  /\ UNCHANGED <<oldIn, newIn, pathPrefix, category, oldDoc, newDoc, differ,
                 fwd>>
  /\ UNCHANGED <<words, prioVars, treeVars>>

NextDiff ==
  \/ CallDiffObjects
  \/ CallDiffObjectsSwapped
  \/ CallCompareObjects
  \/ CallCompareObjectsSwapped

SpecDiff == InitDiff /\ [][NextDiff]_vars

(***************************************************************************)
(* Properties of the structural differs.                                   *)
(***************************************************************************)
\* the differ has returned from diff(oldIn, newIn)
Returned == phase \in {"forward", "both"}

\* C1: reflexivity -- for every JSON value x (object, array, string, number,
\* boolean or null) and every path prefix, diffObjects(x, x, p) and
\* compareObjects(x, x, p, c) return the empty change list.
C1_Reflexivity ==
  (Returned /\ oldIn = newIn) => fwd = <<>>

\* an object holding an unsorted array went through
\* diffObjects against itself
C1_Witness ==
  /\ phase = "forward"
  /\ differ = "diffObjects"
  /\ oldIn = newIn
  /\ oldIn = JObj(<<<<"a", JArr(<<JNum(2), JNum(1)>>)>>>>)

\* changes[i] is a change of the given type at path p carrying value v
IsAddedAt(c, p, v) == c.type = "added" /\ c.path = p /\ c.newVal = v
IsRemovedAt(c, p, v) == c.type = "removed" /\ c.path = p /\ c.oldVal = v

\* every `added` of xs is matched by a `removed` of ys, and the other way
AddedMirrorsRemoved(xs, ys) ==
  /\ \A i \in 1..Len(xs) :
       xs[i].type = "added" =>
         \E j \in 1..Len(ys) : IsRemovedAt(ys[j], xs[i].path, xs[i].newVal)
  /\ \A j \in 1..Len(ys) :
       ys[j].type = "removed" =>
         \E i \in 1..Len(xs) : IsAddedAt(xs[i], ys[j].path, ys[j].oldVal)

\* C2: symmetry of kind -- for all JSON objects a and b, every path P and value
\* V: diff(a, b) contains `added` at P with V iff diff(b, a) contains `removed`
\* at P with V.
C2_SymmetryOfKind ==
  (phase = "both" /\ oldIn.t = "object" /\ newIn.t = "object") =>
    /\ AddedMirrorsRemoved(fwd, rev)
    /\ AddedMirrorsRemoved(rev, fwd)

\* both directions ran on objects where a key was added under a nested object
C2_Witness ==
  /\ phase = "both"
  /\ differ = "compareObjects"
  /\ oldIn = JObj(<<<<"a", JObj(<<>>)>>>>)
  /\ newIn = JObj(<<<<"a", JObj(<<<<"b", JNull>>>>)>>>>)
  /\ fwd = <<[type |-> "added", path |-> pathPrefix \o ".a.b",
              newVal |-> JNull, category |-> category]>>
  /\ rev = <<[type |-> "removed", path |-> pathPrefix \o ".a.b",
              oldVal |-> JNull, category |-> category]>>
  /\ pathPrefix # ""

\* the keys that two objects both hold
CommonKeys(x, y) == Range(KeysOfPairs(x.kvs)) \cap Range(KeysOfPairs(y.kvs))

ChildPath(prefix, key) == IF prefix = "" THEN key ELSE prefix \o "." \o key

\* the places <<path, old value, new value>> at which the same key of two
\* compared objects holds values of different typeof
RECURSIVE TypeClashes(_, _, _)
TypeClashes(x, y, prefix) ==
  IF x.t # "object" \/ y.t # "object" THEN {}
  ELSE UNION {
         LET xv == GetMember(x, k)
             yv == GetMember(y, k)
         IN IF TypeOf(xv) # TypeOf(yv)
            THEN {<<ChildPath(prefix, k), xv, yv>>}
            ELSE TypeClashes(xv, yv, ChildPath(prefix, k))
         : k \in CommonKeys(x, y)}

\* the positions of changes whose path is p
ChangesAt(changes, p) == {i \in 1..Len(changes) : changes[i].path = p}

\* C3: type-change precedence -- for any key present in both compared objects
\* whose two values differ in typeof, the diff emits exactly one change for the
\* key, a `modified` with the old and the new value, and no `added` and no
\* `removed` at that path.
C3_TypeChangePrecedence ==
  Returned =>
    \A clash \in TypeClashes(oldIn, newIn, pathPrefix) :
      /\ Cardinality(ChangesAt(fwd, clash[1])) = 1
      /\ \A i \in ChangesAt(fwd, clash[1]) :
           /\ fwd[i].type = "modified"
           /\ fwd[i].oldVal = clash[2]
           /\ fwd[i].newVal = clash[3]

\* {"a": 1} against {"a": "1"} went through the differ
C3_Witness ==
  /\ phase = "forward"
  /\ oldIn = JObj(<<<<"a", JNum(1)>>>>)
  /\ newIn = JObj(<<<<"a", JStr("1")>>>>)
  /\ pathPrefix = ""
  /\ Len(fwd) = 1
  /\ fwd[1].type = "modified"
  /\ fwd[1].path = "a"

(***************************************************************************)
(* The changes the classifier is run on.                                   *)
(***************************************************************************)
Categories == Range(SUBFOLDERS)

ChangePaths ==
  {"type", "description", "auth.outputFields", "outputFields",
   "security.level", "actions/createUser.endpoint"}

ChangeValues ==
  {JStr("OAuth2"), JStr("permissions"), JStr("Security"), JNum(1)}

ChangeFiles ==
  {"auth.json", "actions/createUser.json", "events/permissions.json"}

\* the changes of a document's content, as the differs build them
ContentChanges ==
  {[type |-> "added", path |-> p, newVal |-> v, category |-> c] :
     p \in ChangePaths, v \in ChangeValues, c \in Categories}
    \cup {[type |-> "removed", path |-> p, oldVal |-> v, category |-> c] :
            p \in ChangePaths, v \in ChangeValues, c \in Categories}
    \cup {[type |-> "modified", path |-> p, oldVal |-> v[1], newVal |-> v[2],
           category |-> c] :
            p \in ChangePaths, v \in ChangeValues \X ChangeValues,
            c \in Categories}

\* the changes of a file's or a folder's presence
PresenceChanges ==
  {[type |-> t, file |-> f, category |-> c] :
     t \in {"file-added", "file-removed"}, f \in ChangeFiles, c \in Categories}
    \cup {[type |-> t, folder |-> c, category |-> c] :
            t \in {"folder-added", "folder-removed"}, c \in Categories}

(***************************************************************************)
(* The classifier as an operation.                                         *)
(***************************************************************************)
InitPrio ==
  /\ change \in ContentChanges \cup PresenceChanges
  /\ priority = "none"
  /\ calls = <<>>
  /\ DiffIdle
  /\ TreeIdle

\* determinePriority(change)
Classify ==
  /\ priority = "none"
  /\ priority' = DeterminePriority(change)
  /\ UNCHANGED <<change, calls, diffVars, treeVars>>

NextPrio == Classify

SpecPrio == InitPrio /\ [][NextPrio]_vars

(***************************************************************************)
(* The directory trees the comparison is run on.                           *)
(***************************************************************************)
MaxFolders == 1

\* the documents of the sample connector's auth/auth.json
OAuthDoc ==
  JObj(<<<<"type", JStr("OAuth2")>>,
         <<"tokenUrl", JStr("https://okta.com/oauth2/token")>>>>)

ApiKeyDoc ==
  JObj(<<<<"type", JStr("API Key")>>,
         <<"keyName", JStr("Authorization")>>,
         <<"location", JStr("header")>>>>)

FileNames == {"auth.json"}

Texts == {Invalid, Parsed(OAuthDoc), Parsed(ApiKeyDoc)}

\* a category folder, or none
FolderOptions ==
  {NoEntry}
    \cup {Folder(f) : f \in UNION {[N -> Texts] : N \in SUBSET FileNames}}

\* the connector directory of one side (1 previous, 2 current)
ConnectorOver(S, f, side) ==
  ConnectorDir([c \in Categories |-> IF c \in S THEN f[c][side] ELSE NoEntry])

\* the two directories of a connector: at most MaxFolders categories have a
\* folder on either side
ConnectorPairs ==
  UNION {{<<ConnectorOver(S, f, 1), ConnectorOver(S, f, 2)>> :
            f \in [S -> FolderOptions \X FolderOptions]} :
         S \in {T \in SUBSET Categories : Cardinality(T) <= MaxFolders}}

\* the connector may be missing from either root
OktaPairs ==
  ConnectorPairs
    \cup {<<NoEntry, p[2]>> : p \in ConnectorPairs}
    \cup {<<p[1], NoEntry>> : p \in ConnectorPairs}
    \cup {<<NoEntry, NoEntry>>}

\* what else a root holds: an empty connector, a plain file
EmptyConnector ==
  [n \in {"slack"} |-> ConnectorDir([c \in Categories |-> NoEntry])]

StrayFile == [n \in {"README.md"} |-> PlainFile]

\* what else the two roots hold: at most one of them holds anything else
ExtraPairs ==
  {<<<<>>, <<>>>>}
    \cup {<<x, <<>>>> : x \in {EmptyConnector, StrayFile}}
    \cup {<<<<>>, x>> : x \in {EmptyConnector, StrayFile}}

RootOver(okta, extra) ==
  RootDir(IF okta = NoEntry THEN extra
          ELSE [n \in {"okta"} |-> okta] @@ extra)

\* the names that are a connector directory in either root
ConnectorNames ==
  Range(ListConnectors(prevRoot)) \cup Range(ListConnectors(currRoot))

(***************************************************************************)
(* The comparison as operations.                                           *)
(***************************************************************************)
InitTree ==
  /\ \E p \in OktaPairs, x \in ExtraPairs, mp \in BOOLEAN, mc \in BOOLEAN :
       /\ prevRoot = IF mp THEN NoEntry ELSE RootOver(p[1], x[1])
       /\ currRoot = IF mc THEN NoEntry ELSE RootOver(p[2], x[2])
  /\ failing = {}
  /\ entry = "none"
  /\ outcome = "pending"
  /\ results = <<>>
  /\ error = ""
  /\ reads = {}
  /\ processed = [done |-> FALSE]
  /\ tasks = <<>>
  /\ DiffIdle
  /\ PrioIdle

\* what runComparison left behind: when the comparison returned,
\* generateReports ran processReportData on the list of reports
FinishWithReports(r) ==
  IF r.threw
  THEN /\ outcome' = "threw" /\ error' = r.error /\ results' = <<>>
       /\ processed' = processed
  ELSE LET g == ProcessReportData(r.results)
       IN /\ outcome' = "returned" /\ error' = "" /\ results' = g.input
          /\ processed' = [done |-> TRUE, data |-> g.data]

\* what a call left behind
Finish(r) ==
  IF r.threw
  THEN outcome' = "threw" /\ error' = r.error /\ results' = <<>>
  ELSE outcome' = "returned" /\ error' = "" /\ results' = r.results

\* compareConnectors(prevPath, currPath) of the stand-alone script
RunScript ==
  /\ outcome = "pending"
  /\ entry' = "script"
  /\ Finish([threw |-> FALSE,
             results |-> LegacyCompareConnectors(prevRoot, currRoot)])
  /\ reads' = LegacyReads(prevRoot, currRoot)
  /\ UNCHANGED <<prevRoot, currRoot, failing, processed, tasks, diffVars,
               prioVars>>

\* AdvancedComparator.compareConnectors(prevPath, currPath)
RunComparator ==
  /\ outcome = "pending"
  /\ entry' = "comparator"
  /\ \E F \in SUBSET (ConnectorNames \cap {"okta"}) :
       /\ failing' = F
       /\ Finish(CompareConnectors(prevRoot, currRoot, F))
       /\ reads' = CompareReads(prevRoot, currRoot, F)
  /\ UNCHANGED <<prevRoot, currRoot, processed, tasks, diffVars, prioVars>>

\* FunctionalChangeDetectionTool.runComparison(), the comparison and the
\* processing of its results for the reports
RunTool ==
  /\ outcome = "pending"
  /\ entry' = "tool"
  /\ \E F \in SUBSET (ConnectorNames \cap {"okta"}) :
       /\ failing' = F
       /\ FinishWithReports(RunComparison(prevRoot, currRoot, F))
       /\ reads' = IF ValidateEnvironment(prevRoot, currRoot)
                   THEN CompareReads(prevRoot, currRoot, F) ELSE {}
  /\ UNCHANGED <<prevRoot, currRoot, tasks, diffVars, prioVars>>

NextTree ==
  \/ RunScript
  \/ RunComparator
  \/ RunTool

SpecTree == InitTree /\ [][NextTree]_vars

(***************************************************************************)
(* The comparison on connectors that hold all five category folders.       *)
(***************************************************************************)
\* okta under one root or both; every category folder is missing or holds
\* auth.json, the OAuth2 document in previous, the API Key document in
\* current
InitOrder ==
  /\ \E inPrev \in SUBSET Categories, inCurr \in SUBSET Categories,
        side \in {"both", "previous", "current"} :
       LET tree(S, doc) ==
             ConnectorDir([c \in Categories |->
               IF c \in S THEN Folder([f \in FileNames |-> Parsed(doc)])
               ELSE NoEntry])
       IN /\ prevRoot = RootOver(IF side = "current" THEN NoEntry
                                 ELSE tree(inPrev, OAuthDoc), <<>>)
          /\ currRoot = RootOver(IF side = "previous" THEN NoEntry
                                 ELSE tree(inCurr, ApiKeyDoc), <<>>)
  /\ failing = {}
  /\ entry = "none"
  /\ outcome = "pending"
  /\ results = <<>>
  /\ error = ""
  /\ reads = {}
  /\ processed = [done |-> FALSE]
  /\ tasks = <<>>
  /\ DiffIdle
  /\ PrioIdle

SpecOrder == InitOrder /\ [][NextTree]_vars

(***************************************************************************)
(* Properties of the classifier.                                           *)
(***************************************************************************)
\* determinePriority has returned
Classified == priority \in {"P0", "P1", "P2"}

\* C6: severity precedence -- determinePriority returns P0 for every change
\* whose category is "auth", whatever its type, path, file, folder, oldVal
\* and newVal are, a path holding a Major pattern such as outputFields
\* included.
C6_AuthIsCritical ==
  (Classified /\ change.category = "auth") => priority = "P0"

\* a modified change of category auth at a path that holds the Major
\* pattern outputFields has been classified
C6_Witness ==
  /\ Classified
  /\ change.category = "auth"
  /\ change.type = "modified"
  /\ change.path = "auth.outputFields"

(***************************************************************************)
(* Properties of the directory comparison.                                 *)
(***************************************************************************)
\* the two directories of the connector okta
PrevOkta == EntryAt(prevRoot, "okta")
CurrOkta == EntryAt(currRoot, "okta")

\* okta is a connector directory of both roots
OktaInBoth == PrevOkta.kind = "connector" /\ CurrOkta.kind = "connector"

\* the run returned a report of okta built by a comparison that went through
Compared ==
  /\ outcome = "returned"
  /\ "okta" \notin failing
  /\ \E i \in 1..Len(results) : results[i].connector = "okta"

\* the changes of the report of okta
OktaChanges ==
  results[CHOOSE i \in 1..Len(results) : results[i].connector = "okta"].changes

\* the changes tagged with category c
OfCategory(changes, c) ==
  SelectSeq(changes, LAMBDA ch : "category" \in DOMAIN ch /\ ch.category = c)

\* the folder-level changes among the changes
FolderLevel(changes) ==
  SelectSeq(changes, LAMBDA ch : ch.type \in {"folder-added", "folder-removed"})

\* the changes of the presence of file f of category c: the script names
\* the file c/f, the comparator f
FileLevel(changes, c, f) ==
  SelectSeq(changes, LAMBDA ch :
    /\ ch.type \in {"file-added", "file-removed"}
    /\ ch.file \in {f, PathJoin(c, f)})

\* the changes of a document's content among the changes
ContentLevel(changes) ==
  SelectSeq(changes, LAMBDA ch : ch.type \in {"added", "removed", "modified"})

\* exactly one change, of the type, about the folder
OneFolderChange(changes, type, c) ==
  /\ Len(changes) = 1
  /\ changes[1].type = type
  /\ changes[1].folder = c

\* C4: four-state folder reconciliation -- for each of the five category
\* folders of a connector that exists in both roots: no change at all when
\* the folder is absent from both trees, one folder-removed when it exists
\* only in previous, one folder-added when it exists only in current, and no
\* folder-level change when it exists in both.
C4_FolderReconciliation ==
  (Compared /\ OktaInBoth) =>
    \A c \in Categories :
      LET inPrev == PathExists(FolderAt(PrevOkta, c))
          inCurr == PathExists(FolderAt(CurrOkta, c))
          changes == OfCategory(OktaChanges, c)
      IN /\ (~inPrev /\ ~inCurr) => changes = <<>>
         /\ (inPrev /\ ~inCurr) =>
              OneFolderChange(FolderLevel(changes), "folder-removed", c)
         /\ (~inPrev /\ inCurr) =>
              OneFolderChange(FolderLevel(changes), "folder-added", c)
         /\ (inPrev /\ inCurr) => FolderLevel(changes) = <<>>

\* the comparator went through a connector whose previous tree alone holds
\* a category folder with a file, the other folders being in neither tree,
\* and reported the folder
C4_Witness ==
  /\ entry = "comparator"
  /\ Compared
  /\ OktaInBoth
  /\ \E c \in Categories :
       /\ FolderAt(PrevOkta, c).kind = "folder"
       /\ FolderAt(PrevOkta, c).files # <<>>
       /\ ~PathExists(FolderAt(CurrOkta, c))
       /\ FolderLevel(OfCategory(OktaChanges, c)) # <<>>
       /\ \E d \in Categories \ {c} :
            /\ ~PathExists(FolderAt(PrevOkta, d))
            /\ ~PathExists(FolderAt(CurrOkta, d))

\* C5: a file's presence change is reported once and never diffed -- when a
\* category folder exists in both trees and a file name exists in only one
\* of them, exactly one file-added (only in current) or file-removed (only
\* in previous) change is emitted for the file, tagged with the category,
\* and no added, removed or modified change is emitted for it.
C5_FilePresenceReportedOnce ==
  (Compared /\ OktaInBoth) =>
    \A c \in Categories, f \in FileNames :
      LET prevFolder == FolderAt(PrevOkta, c)
          currFolder == FolderAt(CurrOkta, c)
          inPrev == f \in DOMAIN prevFolder.files
          inCurr == f \in DOMAIN currFolder.files
          changes == OfCategory(OktaChanges, c)
      IN (prevFolder.kind = "folder" /\ currFolder.kind = "folder"
            /\ inPrev # inCurr) =>
           /\ Len(FileLevel(changes, c, f)) = 1
           /\ FileLevel(changes, c, f)[1].type =
                (IF inCurr THEN "file-added" ELSE "file-removed")
           /\ ContentLevel(changes) = <<>>

\* the expected changes of the auth scenario, at paths that start with q
AuthScenarioChanges(q) ==
  {[type |-> "modified", path |-> q \o "type", oldVal |-> JStr("OAuth2"),
    newVal |-> JStr("API Key"), category |-> "auth"],
   [type |-> "removed", path |-> q \o "tokenUrl",
    oldVal |-> JStr("https://okta.com/oauth2/token"), category |-> "auth"],
   [type |-> "added", path |-> q \o "keyName",
    newVal |-> JStr("Authorization"), category |-> "auth"],
   [type |-> "added", path |-> q \o "location", newVal |-> JStr("header"),
    category |-> "auth"]}

\* previous auth/auth.json is the OAuth2 document, current auth/auth.json
\* the API Key document
AuthScenario ==
  /\ OktaInBoth
  /\ FolderAt(PrevOkta, "auth") = Folder([f \in {"auth.json"} |-> Parsed(OAuthDoc)])
  /\ FolderAt(CurrOkta, "auth") = Folder([f \in {"auth.json"} |-> Parsed(ApiKeyDoc)])

\* a change without the priority the script stores in it
WithoutPriority(ch) == [f \in DOMAIN ch \ {"priority"} |-> ch[f]]

C8_UnparsableFileIsReported ==
  (outcome # "pending" /\ OktaInBoth /\ "okta" \notin failing) =>
    \A c \in Categories, f \in FileNames :
      LET prevFolder == FolderAt(PrevOkta, c)
          currFolder == FolderAt(CurrOkta, c)
      IN (/\ prevFolder.kind = "folder" /\ f \in DOMAIN prevFolder.files
          /\ currFolder.kind = "folder" /\ f \in DOMAIN currFolder.files
          /\ prevFolder.files[f].ok # currFolder.files[f].ok) =>
           /\ Compared
           /\ LET reported == FileLevel(OfCategory(OktaChanges, c), c, f)
              IN /\ reported # <<>>
                 /\ \A i \in 1..Len(reported) :
                      reported[i].type =
                        (IF prevFolder.files[f].ok THEN "file-removed"
                         ELSE "file-added")

\* C9: the fatal precondition -- when neither root exists compareConnectors
\* fails with an error and returns no report list; in no other case does an
\* exception leave compareConnectors, a failing connector included.
C9_FatalPrecondition ==
  (entry = "comparator" /\ outcome # "pending") =>
    /\ (~PathExists(prevRoot) /\ ~PathExists(currRoot)) =>
         (outcome = "threw" /\ error # "" /\ results = <<>>)
    /\ (PathExists(prevRoot) \/ PathExists(currRoot)) => outcome = "returned"

\* compareConnectors was called with neither root in place and threw
C9_Witness ==
  /\ entry = "comparator"
  /\ ~PathExists(prevRoot)
  /\ ~PathExists(currRoot)
  /\ outcome = "threw"

\* C10: one missing root is not an error -- when exactly one of the two
\* roots exists the run does not fail and returns one report for every
\* connector of the root that exists.
C10_OneMissingRootProceeds ==
  (outcome # "pending" /\ PathExists(prevRoot) # PathExists(currRoot)) =>
    /\ outcome = "returned"
    /\ Len(results) = Cardinality(ConnectorNames)
    /\ {results[i].connector : i \in 1..Len(results)} = ConnectorNames

(***************************************************************************)
(* The first generation as operations.                                     *)
(***************************************************************************)
\* compareConnectors(prevPath, currPath) of the first class
RunComparatorV1 ==
  /\ outcome = "pending"
  /\ entry' = "comparator-v1"
  /\ \E F \in SUBSET (ConnectorNames \cap {"okta"}) :
       /\ failing' = F
       /\ Finish(CompareConnectorsV1(prevRoot, currRoot, F))
       /\ reads' = FirstReads(prevRoot, currRoot, F)
  /\ UNCHANGED <<prevRoot, currRoot, processed, tasks, diffVars, prioVars>>

\* runComparison() of the first tool
RunToolV1 ==
  /\ outcome = "pending"
  /\ entry' = "tool-v1"
  /\ \E F \in SUBSET (ConnectorNames \cap {"okta"}) :
       /\ failing' = F
       /\ FinishWithReports(RunComparisonV1(prevRoot, currRoot, F))
       /\ reads' = FirstReads(prevRoot, currRoot, F)
  /\ UNCHANGED <<prevRoot, currRoot, tasks, diffVars, prioVars>>

NextV1 ==
  \/ RunComparatorV1
  \/ RunToolV1

SpecV1 == InitTree /\ [][NextV1]_vars

\* C11: connector-level isolation -- if reconciling one connector throws,
\* compareConnectors still processes every remaining connector, the failed
\* connector's report has an empty changes list and a processingError
\* string, and so every returned report has a changes sequence.
C11_ConnectorIsolation ==
  (outcome # "pending" /\ PathExists(prevRoot) /\ PathExists(currRoot)
     /\ failing # {}) =>
    /\ outcome = "returned"
    /\ {results[i].connector : i \in 1..Len(results)} = ConnectorNames
    /\ \A i \in 1..Len(results) :
         /\ "changes" \in DOMAIN results[i]
         /\ results[i].connector \in failing =>
              /\ results[i].changes = <<>>
              /\ "processingError" \in DOMAIN results[i]
              /\ results[i].processingError # ""

(***************************************************************************)
(* Properties of the reports of connectors and folders.                    *)
(***************************************************************************)
\* the change is about category c: by its category, or, for a change that
\* carries none, by the folder of its path
AboutCategory(ch, c) ==
  IF "category" \in DOMAIN ch THEN ch.category = c
  ELSE "path" \in DOMAIN ch /\ Includes(ch.path, "/" \o c \o "/")

\* C12: folder reconciliation completeness -- for a connector that exists
\* under the previous root and is absent under the current root, the report
\* holds, for every category folder that existed under it in previous (a
\* folder without a JSON file included), at least one folder-removed change
\* or file-removed changes for that category.
C12_RemovedConnectorComplete ==
  (Compared /\ PrevOkta.kind = "connector" /\ ~PathExists(CurrOkta)) =>
    \A c \in Categories :
      PathExists(FolderAt(PrevOkta, c)) =>
        \E i \in 1..Len(OktaChanges) :
          /\ OktaChanges[i].type \in {"folder-removed", "file-removed"}
          /\ AboutCategory(OktaChanges[i], c)

\* C13: the category invariant -- every change of every report returned by
\* compareConnectors, for any pair of trees (a connector under only one
\* root included), has a category field whose value is one of actions,
\* auth, events, metadata, meta.
C13_CategoryInvariant ==
  outcome = "returned" =>
    \A i \in 1..Len(results) :
      \A j \in 1..Len(results[i].changes) :
        /\ "category" \in DOMAIN results[i].changes[j]
        /\ results[i].changes[j].category \in Categories

\* the path is the folder of category c of okta in the current tree, or
\* lies under it
UnderCurrentFolder(p, c) ==
  LET dir == PathJoin(PathJoin(CurrPath, "okta"), c)
  IN p = dir \/ Includes(p, dir \o "/")

\* C14: the folder removal scenario -- when a category folder exists under a
\* connector in previous and not in current, reconciliation emits exactly
\* one folder-removed change with that category for it, and reads no file
\* under that folder in the current tree.
C14_FolderRemoval ==
  (Compared /\ OktaInBoth) =>
    \A c \in Categories :
      (PathExists(FolderAt(PrevOkta, c)) /\ ~PathExists(FolderAt(CurrOkta, c)))
        => /\ Cardinality({i \in 1..Len(OktaChanges) :
                             /\ OktaChanges[i].type = "folder-removed"
                             /\ OktaChanges[i].category = c}) = 1
           /\ \A p \in reads : ~UnderCurrentFolder(p, c)

\* the comparator reported the removal of a folder with a file, after it
\* scanned the folder in the previous tree
C14_Witness ==
  /\ entry = "comparator"
  /\ Compared
  /\ OktaInBoth
  /\ FolderAt(PrevOkta, "meta").kind = "folder"
  /\ FolderAt(PrevOkta, "meta").files # <<>>
  /\ ~PathExists(FolderAt(CurrOkta, "meta"))
  /\ PathJoin(PathJoin(PrevPath, "okta"), "meta") \in reads
  /\ \E i \in 1..Len(OktaChanges) : OktaChanges[i].type = "folder-removed"

(***************************************************************************)
(* Purity of the structural differs.                                       *)
(***************************************************************************)
\* the value and every value nested in it
RECURSIVE SubValues(_)
SubValues(v) ==
  {v} \cup
    (IF v.t = "object"
     THEN UNION {SubValues(v.kvs[i][2]) : i \in 1..Len(v.kvs)}
     ELSE IF v.t = "array"
     THEN UNION {SubValues(v.es[i]) : i \in 1..Len(v.es)}
     ELSE {})

\* C15: the structural diff is pure -- a call diff(oldValue, newValue,
\* pathPrefix) leaves both inputs as they were, the element order of every
\* nested array included, so the old and new values an emitted change
\* carries are values of the input documents.
C15_DiffIsPure ==
  Returned =>
    /\ oldDoc = oldIn
    /\ newDoc = newIn
    /\ \A i \in 1..Len(fwd) :
         /\ "oldVal" \in DOMAIN fwd[i] => fwd[i].oldVal \in SubValues(oldIn)
         /\ "newVal" \in DOMAIN fwd[i] => fwd[i].newVal \in SubValues(newIn)

(***************************************************************************)
(* Properties of the list of reports.                                      *)
(***************************************************************************)
\* the names that are a directory under the root
DirectoriesOf(root) ==
  IF root.kind = "root"
  THEN {n \in DOMAIN root.entries : root.entries[n].kind = "connector"}
  ELSE {}

\* C16: one report per connector -- compareConnectors returns exactly one
\* report for each name that is a directory under at least one of the two
\* roots: a connector under both roots appears once, none is missing, and
\* an entry that is no directory gets no report.
C16_OneReportPerConnector ==
  (entry \in {"comparator", "tool"} /\ outcome = "returned") =>
    /\ \A n \in DirectoriesOf(prevRoot) \cup DirectoriesOf(currRoot) :
         Cardinality({i \in 1..Len(results) : results[i].connector = n}) = 1
    /\ \A i \in 1..Len(results) :
         results[i].connector \in
           DirectoriesOf(prevRoot) \cup DirectoriesOf(currRoot)

\* the comparator returned for roots that both hold okta, one of them next
\* to a plain file
C16_Witness ==
  /\ entry = "comparator"
  /\ outcome = "returned"
  /\ OktaInBoth
  /\ EntryAt(prevRoot, "README.md").kind = "file"
  /\ Len(results) = 1

(***************************************************************************)
(* Properties of the processing for the reports.                           *)
(***************************************************************************)
\* C18: renderers are read-only -- report generation (generateReports /
\* processReportData) leaves the list of reports it receives unchanged: no
\* field of a change of the input (type, path, file, folder, category,
\* oldVal, newVal) is modified or removed; the prioritised changes are new
\* objects.
C18_RenderersReadOnly ==
  (entry = "tool" /\ outcome = "returned" /\ processed.done) =>
    results = CompareConnectors(prevRoot, currRoot, failing).results

\* the place in the fixed list of the category a change is about, 0 for a
\* change that tells none
CategoryRank(ch) ==
  LET at == {k \in 1..Len(SUBFOLDERS) : AboutCategory(ch, SUBFOLDERS[k])}
  IN IF at = {} THEN 0 ELSE CHOOSE k \in at : TRUE

\* the changes follow the category list, and in a category no folder-level
\* change comes after another change
InDiscoveryOrder(changes) ==
  LET told == SelectSeq(changes, LAMBDA ch : CategoryRank(ch) # 0)
  IN \A i \in 1..Len(told) : \A j \in (i + 1)..Len(told) :
       /\ CategoryRank(told[i]) <= CategoryRank(told[j])
       /\ CategoryRank(told[i]) = CategoryRank(told[j]) =>
            told[j].type \notin {"folder-added", "folder-removed"}

MaxCalls == 3

\* the changes handed to the classifiers
ClassifyInputs ==
  {c \in ContentChanges :
     /\ c.type = "modified"
     /\ c.path \in {"description", "actions/createUser.endpoint"}
     /\ c.oldVal = JStr("OAuth2")
     /\ c.newVal = JStr("permissions")
     /\ c.category = "meta"}
    \cup {c \in PresenceChanges :
            /\ c.type \in {"file-added", "folder-removed"}
            /\ c.category \in {"auth", "events"}
            /\ c.type = "file-added" => c.file = "auth.json"}
    \cup {[type |-> "file-added", file |-> "list.json",
           path |-> "connectors/current/okta/meta/list.json"]}

InitClassify ==
  /\ change = [type |-> "none"]
  /\ priority = "none"
  /\ calls = <<>>
  /\ DiffIdle
  /\ TreeIdle

\* determinePriority(c)
CallDeterminePriority ==
  /\ Len(calls) < MaxCalls
  /\ \E c \in ClassifyInputs :
       LET returned == DeterminePriority(c)
       IN /\ change' = c
          /\ priority' = returned
          /\ calls' = Append(calls, [fn |-> "determinePriority",
                                     change |-> c, priority |-> returned])
  /\ UNCHANGED <<diffVars, treeVars>>

\* prioritizer.calculatePriority(c)
CallCalculatePriority ==
  /\ Len(calls) < MaxCalls
  /\ \E c \in ClassifyInputs :
       LET returned == CalculatePriority(c)
       IN /\ change' = c
          /\ priority' = returned
          /\ calls' = Append(calls, [fn |-> "calculatePriority",
                                     change |-> c, priority |-> returned])
  /\ UNCHANGED <<diffVars, treeVars>>

NextClassify == CallDeterminePriority \/ CallCalculatePriority

SpecClassify == InitClassify /\ [][NextClassify]_vars

InitParallel ==
  /\ \E side \in [{"okta", "slack"} -> {"both", "previous", "current"}],
        inPrev \in [{"okta", "slack"} -> SUBSET {"auth", "events"}],
        inCurr \in [{"okta", "slack"} -> SUBSET {"auth", "events"}] :
       LET tree(S, doc) ==
             ConnectorDir([c \in Categories |->
               IF c \in S THEN Folder([f \in FileNames |-> Parsed(doc)])
               ELSE NoEntry])
           before == [n \in {"okta", "slack"} |->
                        tree(inPrev[n], IF n = "okta" THEN OAuthDoc
                                        ELSE ApiKeyDoc)]
           after == [n \in {"okta", "slack"} |->
                       tree(inCurr[n], IF n = "okta" THEN ApiKeyDoc
                                       ELSE OAuthDoc)]
       IN /\ prevRoot = RootDir([n \in {m \in {"okta", "slack"} :
                                          side[m] # "current"} |-> before[n]])
          /\ currRoot = RootDir([n \in {m \in {"okta", "slack"} :
                                          side[m] # "previous"} |-> after[n]])
  /\ tasks = [c \in ConnectorNames |->
                [pc |-> "start", next |-> 1, changes |-> <<>>]]
  /\ failing = {}
  /\ entry = "none"
  /\ outcome = "pending"
  /\ results = <<>>
  /\ error = ""
  /\ reads = {}
  /\ processed = [done |-> FALSE]
  /\ DiffIdle
  /\ PrioIdle

\* compareConnector up to its loop: the connector under one root only
StartConnector ==
  /\ \E c \in DOMAIN tasks :
       /\ tasks[c].pc = "start"
       /\ LET prevConnector == EntryAt(prevRoot, c)
              currConnector == EntryAt(currRoot, c)
              prevExists == PathExists(prevConnector)
              currExists == PathExists(currConnector)
          IN tasks' = [tasks EXCEPT ![c] =
               IF ~prevExists /\ currExists
               THEN [pc |-> "done", next |-> 1,
                     changes |-> Retyped(ScanAllFiles(currConnector,
                                           PathJoin(CurrPath, c)),
                                         "file-added")]
               ELSE IF prevExists /\ ~currExists
               THEN [pc |-> "done", next |-> 1,
                     changes |-> Retyped(ScanAllFiles(prevConnector,
                                           PathJoin(PrevPath, c)),
                                         "file-removed")]
               ELSE [pc |-> "folders", next |-> 1, changes |-> <<>>]]
  /\ UNCHANGED <<prevRoot, currRoot, failing, entry, outcome, results, error,
                 reads, processed, diffVars, prioVars>>

\* one round of the loop over the folders; the call returns after the last
CompareNextFolder ==
  /\ \E c \in DOMAIN tasks :
       /\ tasks[c].pc = "folders"
       /\ LET folder == SUBFOLDERS[tasks[c].next]
              folderChanges ==
                CompareFolder(EntryAt(prevRoot, c), EntryAt(currRoot, c),
                              PathJoin(PrevPath, c), PathJoin(CurrPath, c),
                              folder)
          IN tasks' = [tasks EXCEPT ![c] =
               [pc |-> IF @.next = Len(SUBFOLDERS) THEN "done" ELSE "folders",
                next |-> @.next + 1,
                changes |-> @.changes \o folderChanges]]
  /\ UNCHANGED <<prevRoot, currRoot, failing, entry, outcome, results, error,
                 reads, processed, diffVars, prioVars>>

NextParallel == StartConnector \/ CompareNextFolder

SpecParallel == InitParallel /\ [][NextParallel]_vars

C21_ArrayReordering ==
  LET count(es, e) == Cardinality({i \in 1..Len(es) : es[i] = e})
      permuted(x, y) ==
        /\ Len(x.es) = Len(y.es)
        /\ \A i \in 1..Len(x.es) : count(x.es, x.es[i]) = count(y.es, x.es[i])
      pathOf(k) == IF pathPrefix # "" THEN pathPrefix \o "." \o k ELSE k
      at(k) == {i \in 1..Len(fwd) : fwd[i].path = pathOf(k)}
  IN (Returned /\ oldIn.t = "object" /\ newIn.t = "object")
       => \A k \in Keys :
            (/\ HasOwnProperty(oldIn, k) /\ HasOwnProperty(newIn, k)
             /\ IsArray(GetMember(oldIn, k)) /\ IsArray(GetMember(newIn, k)))
              => LET x == GetMember(oldIn, k)
                     y == GetMember(newIn, k)
                 IN IF permuted(x, y) THEN at(k) = {}
                    ELSE /\ Cardinality(at(k)) = 1
                         /\ \A i \in at(k) :
                              /\ fwd[i].type = "modified"
                              /\ permuted(fwd[i].oldVal, x)
                              /\ permuted(fwd[i].newVal, y)

\* C22: paths contain object keys only -- whatever the two parsed documents
\* are, documents whose root value is an array included, the path of every
\* change the differ returns is the prefix followed by a dotted sequence of
\* object keys; no component of it is an array index.
C22_PathsAreKeys ==
  LET full(p) == IF pathPrefix # "" THEN pathPrefix \o "." \o p ELSE p
      keyPaths == Keys \cup {k[1] \o "." \o k[2] : k \in Keys \X Keys}
  IN Returned => \A i \in 1..Len(fwd) : \E p \in keyPaths : fwd[i].path = full(p)

(***************************************************************************)
(* The rule table read as the statement of the rules.                      *)
(***************************************************************************)
CriticalPatterns ==
  {"auth/", "security", "permissions", "authentication", "authorization"}

MajorPatterns ==
  {"actions/", "events/", "file-added", "file-removed", "folder-added",
   "folder-removed", "endpoint", "httpMethod", "inputFields", "outputFields",
   "trigger", "payload"}

\* some pattern of P is a case-sensitive substring of the change's path,
\* file, folder or type or, for a modified change, of a string oldVal or
\* newVal
SomeMatch(P) ==
  \E p \in P :
    \/ \E f \in {"path", "file", "folder", "type"} \cap DOMAIN change :
         Includes(change[f], p)
    \/ /\ change.type = "modified"
       /\ \E f \in {"oldVal", "newVal"} \cap DOMAIN change :
            change[f].t = "string" /\ Includes(change[f].s, p)

\* C23: Critical rules win over Major rules -- for a change whose category
\* is not auth, determinePriority returns P0 whenever a Critical pattern
\* matches a checked field, a Major pattern matching or not, and returns P1
\* only when no Critical pattern matches and some Major pattern does.
C23_CriticalBeforeMajor ==
  (Classified /\ change.category # "auth")
    => /\ SomeMatch(CriticalPatterns) => priority = "P0"
       /\ priority = "P1"
            => (~SomeMatch(CriticalPatterns) /\ SomeMatch(MajorPatterns))

\* a modified change whose path holds a Major pattern and whose new value
\* holds a Critical one has been classified
C23_Witness ==
  /\ Classified
  /\ change.category = "actions"
  /\ change.type = "modified"
  /\ change.path = "outputFields"
  /\ change.oldVal = JNum(1)
  /\ change.newVal = JStr("permissions")

\* C24: default Minor with case-sensitive matching -- for a change whose
\* category is not auth, determinePriority returns P2 exactly when no
\* pattern of the rule table is a case-sensitive substring of a checked
\* field; a value that differs from a pattern in letter case only does not
\* match.
C24_DefaultMinor ==
  (Classified /\ change.category # "auth")
    => (priority = "P2"
          <=> ~SomeMatch(CriticalPatterns \cup MajorPatterns))

\* a modified change holding the value Security, and nothing else that
\* resembles a pattern, has been classified
C24_Witness ==
  /\ Classified
  /\ change.category = "meta"
  /\ change.type = "modified"
  /\ change.path = "description"
  /\ change.oldVal = JStr("OAuth2")
  /\ change.newVal = JStr("Security")

\* C25: calculatePriority returns P2 for every change in which no critical
\* and no major keyword occurs in its type, path, file, category or
\* serialized form, whatever the type of the change is.
C25_NoKeywordIsMinor ==
  LET keywords == {"auth", "security", "authentication", "token",
                   "permission", "access", "credential", "endpoint",
                   "action", "event", "input", "output", "method", "trigger"}
      occurs(c) == \E k \in keywords :
                     \E text \in ChangeString(c) : Includes(text, k)
  IN \A i \in 1..Len(calls) :
       (calls[i].fn = "calculatePriority" /\ ~occurs(calls[i].change))
         => calls[i].priority = "P2"

(***************************************************************************)
(* The two documents as the content of a file on both sides.               *)
(***************************************************************************)
\* x and y are equal as JSON values, up to the order of object keys
RECURSIVE JsonEqual(_, _)
JsonEqual(x, y) ==
  IF x.t # y.t THEN FALSE
  ELSE IF x.t = "object"
  THEN /\ Range(KeysOfPairs(x.kvs)) = Range(KeysOfPairs(y.kvs))
       /\ \A k \in Range(KeysOfPairs(x.kvs)) :
            JsonEqual(GetMember(x, k), GetMember(y, k))
  ELSE IF x.t = "array"
  THEN /\ Len(x.es) = Len(y.es)
       /\ \A i \in 1..Len(x.es) : JsonEqual(x.es[i], y.es[i])
  ELSE x = y

\* what compareJsonFiles returns for a file holding oldIn under the
\* previous folder and newIn under the current one
FileChanges ==
  CompareJsonFiles(Folder([f \in FileNames |-> Parsed(oldIn)]),
                   Folder([f \in FileNames |-> Parsed(newIn)]),
                   "auth.json", category)

\* C26: no difference is missed -- for a file parsed on both sides, its
\* root an object, an array, a string, a number or a boolean,
\* compareJsonFiles returns the empty change list only if the two documents
\* are equal as JSON values up to object key order.
C26_NoDifferenceMissed ==
  (/\ Returned /\ differ = "compareObjects" /\ pathPrefix = ""
   /\ oldIn.t # "null" /\ newIn.t # "null")
    => (FileChanges = <<>> => JsonEqual(oldIn, newIn))

\* C27: comparing a tree with itself reports nothing -- when the previous
\* root and the current root hold identical trees, files that are not valid
\* JSON included, every report the run returns has an empty change list.
C27_IdenticalTrees ==
  (outcome = "returned" /\ prevRoot = currRoot)
    => \A i \in 1..Len(results) : results[i].changes = <<>>

\* C28: presence changes are never Minor -- determinePriority returns P0 or
\* P1 for every change of type file-added, file-removed, folder-added or
\* folder-removed, and P0 only if the category is auth or a Critical
\* pattern occurs in the file or folder name.
C28_PresenceNeverMinor ==
  (/\ Classified
   /\ change.type \in {"file-added", "file-removed", "folder-added",
                        "folder-removed"})
    => /\ priority \in {"P0", "P1"}
       /\ priority = "P0"
            => \/ change.category = "auth"
               \/ \E p \in CriticalPatterns :
                    \E f \in {"file", "folder"} \cap DOMAIN change :
                      Includes(change[f], p)

\* the removal of a file named after a Critical pattern, in a category
\* other than auth, has been classified
C28_Witness ==
  /\ Classified
  /\ change.type = "file-removed"
  /\ change.category = "events"
  /\ change.file = "events/permissions.json"
  /\ priority = "P0"

(***************************************************************************)
(* The differs on documents with a key that holds a dot: the key "a.b"     *)
(* next to the key b of the object under a.                                *)
(***************************************************************************)
DottedDocs ==
  LET flat == {<<<<"a.b", JNum(n)>>>> : n \in {1, 2}}
      nested == {<<<<"a", JObj(<<<<"b", JNum(n)>>>>)>>>> : n \in {1, 2}}
  IN {JObj(<<>>)}
       \cup {JObj(kvs) : kvs \in flat \cup nested}
       \cup {JObj(x \o y) : x \in flat, y \in nested}
       \cup {JObj(y \o x) : x \in flat, y \in nested}

InitDotted ==
  /\ oldIn \in DottedDocs
  /\ newIn \in DottedDocs
  /\ pathPrefix \in PathPrefixes
  /\ category = "actions"
  /\ oldDoc = oldIn
  /\ newDoc = newIn
  /\ differ = "none"
  /\ phase = "input"
  /\ fwd = <<>>
  /\ rev = <<>>
  /\ words = [pc |-> "idle"]
  /\ PrioIdle
  /\ TreeIdle

SpecDotted == InitDotted /\ [][NextDiff]_vars

\* C29: paths identify a unique location -- in the change list one call of
\* compareObjects returns, no two changes have the same path, whatever the
\* object keys are, keys that hold a dot included.
C29_PathsUnique ==
  (Returned /\ differ = "compareObjects")
    => \A i, j \in 1..Len(fwd) : fwd[i].path = fwd[j].path => i = j

(***************************************************************************)
(* diffWords as operations.  An argument is the array String.split makes   *)
(* of it (any array of tokens, the empty token included), or undefined,    *)
(* which JSON.stringify leaves undefined and on which .split raises a      *)
(* TypeError.                                                              *)
(***************************************************************************)
MaxWords == 3

Tokens == {"a", " ", ""}

\* a string argument, held as the tokens String.split makes of it
WordLists ==
  {[t |-> "string", tokens |-> ws] :
     ws \in UNION {[1..n -> Tokens] : n \in 0..MaxWords}}

InitWords ==
  /\ \E o \in WordLists \cup {JUndef}, n \in WordLists \cup {JUndef} :
       words = [pc |-> "called", oldStr |-> o, newStr |-> n]
  /\ oldIn = JUndef /\ newIn = JUndef
  /\ oldDoc = JUndef /\ newDoc = JUndef
  /\ pathPrefix = "" /\ category = ""
  /\ differ = "none" /\ phase = "idle"
  /\ fwd = <<>> /\ rev = <<>>
  /\ PrioIdle
  /\ TreeIdle

\* the conversions and the split, up to the loop
SplitWords ==
  /\ words.pc = "called"
  /\ words' = IF words.oldStr = JUndef \/ words.newStr = JUndef
              THEN [pc |-> "threw", oldStr |-> words.oldStr,
                    newStr |-> words.newStr]
              ELSE [pc |-> "loop", oldStr |-> words.oldStr,
                    newStr |-> words.newStr,
                    oldWords |-> words.oldStr.tokens,
                    newWords |-> words.newStr.tokens,
                    i |-> 0, j |-> 0,
                    removed |-> <<>>, added |-> <<>>, unchanged |-> <<>>]
  /\ UNCHANGED <<oldIn, newIn, pathPrefix, category, oldDoc, newDoc, differ,
                 phase, fwd, rev, prioVars, treeVars>>

\* one round of `while (i < oldWords.length || j < newWords.length)`
LoopWords ==
  /\ words.pc = "loop"
  /\ words.i < Len(words.oldWords) \/ words.j < Len(words.newWords)
  /\ LET i == words.i
         j == words.j
         oldWords == words.oldWords
         newWords == words.newWords
         oldWordPos == IndexOf(newWords, oldWords[i + 1], j)
         newWordPos == IndexOf(oldWords, newWords[j + 1], i)
     IN words' =
          IF i >= Len(oldWords)
          THEN [words EXCEPT !.added = @ \o Upto(j, Len(newWords)),
                             !.j = Len(newWords)]
          ELSE IF j >= Len(newWords)
          THEN [words EXCEPT !.removed = @ \o Upto(i, Len(oldWords)),
                             !.i = Len(oldWords)]
          ELSE IF oldWords[i + 1] = newWords[j + 1]
          THEN [words EXCEPT !.unchanged = Push(@, j),
                             !.i = i + 1, !.j = j + 1]
          ELSE IF oldWordPos = -1 /\ newWordPos = -1
          THEN [words EXCEPT !.removed = Push(@, i), !.added = Push(@, j),
                             !.i = i + 1, !.j = j + 1]
          ELSE IF newWordPos = -1
                    \/ (oldWordPos # -1 /\ oldWordPos <= newWordPos)
          THEN [words EXCEPT !.added = Push(@, j), !.j = j + 1]
          ELSE [words EXCEPT !.removed = Push(@, i), !.i = i + 1]
  /\ UNCHANGED <<oldIn, newIn, pathPrefix, category, oldDoc, newDoc, differ,
                 phase, fwd, rev, prioVars, treeVars>>

\* the loop condition fails: return { oldWords, newWords, diff: result }
ReturnWords ==
  /\ words.pc = "loop"
  /\ ~(words.i < Len(words.oldWords) \/ words.j < Len(words.newWords))
  /\ words' = [words EXCEPT !.pc = "returned"]
  /\ UNCHANGED <<oldIn, newIn, pathPrefix, category, oldDoc, newDoc, differ,
                 phase, fwd, rev, prioVars, treeVars>>

NextWords == SplitWords \/ LoopWords \/ ReturnWords

SpecWords == InitWords /\ [][NextWords]_vars

\* the call is the only thing running: a step that can be taken is taken
FairWords == SpecWords /\ WF_vars(NextWords)

\* C30: diffWords terminates for every pair of inputs, and on return the
\* removed indices and the unchanged entries together are as many as
\* oldWords, the added indices and the unchanged entries as many as
\* newWords, and each of the three index lists is strictly increasing.
C30_DiffWordsAccounts ==
  LET increasing(s) == \A k \in 1..(Len(s) - 1) : s[k] < s[k + 1]
  IN /\ <>(words.pc \in {"returned", "threw"})
     /\ [](words.pc = "returned"
            => /\ Len(words.removed) + Len(words.unchanged)
                    = Len(words.oldWords)
               /\ Len(words.added) + Len(words.unchanged)
                    = Len(words.newWords)
               /\ increasing(words.removed)
               /\ increasing(words.added)
               /\ increasing(words.unchanged))

\* a call has returned with a removed, an added and an unchanged token
C30_Witness ==
  /\ words.pc = "returned"
  /\ words.removed # <<>>
  /\ words.added # <<>>
  /\ words.unchanged # <<>>

=============================================================================
